---- MODULE Spec2Model ----
(***************************************************************************)
(* Dark Colony lobby-and-battle relay server (src/app.js) with its         *)
(* protocol tables (src/server.js, lines 139-247).                         *)
(*                                                                         *)
(* Bytes are naturals 0..255, buffers are sequences of bytes.  A handler   *)
(* of the event loop (connection, 'data', 'close', a timer callback) is    *)
(* one action; the functions it calls are operators on the server state    *)
(* record S, applied in the order of the code.                             *)
(***************************************************************************)
EXTENDS Integers, Sequences, FiniteSets, TLC

VARIABLES
    nextClientId,       \* app.js:35
    clients,            \* app.js:36   id -> client object
    rooms,              \* app.js:37   roomId -> room object
    roomPingCounters,   \* app.js:38   roomId -> lobby ping counter
    sockets,            \* the net.Socket of every connection accepted so far
    timers,             \* pending setTimeout callbacks
    out,                \* id -> packets written to that socket by the last handler
    proc,               \* "running", "crashed" (uncaught exception) or "hung"
    lastOp,             \* the handler that ran last, with its input
    nData,              \* 'data' events handled so far
    codec,              \* state of the frame codec specification
    clock               \* Date.now(), the idle reaper's next tick and every
                        \* client.lastActivity, in milliseconds

vars == <<nextClientId, clients, rooms, roomPingCounters, sockets, timers, out,
          proc, lastOp, nData, codec, clock>>

(***************************************************************************)
(* Bounds of the model.                                                    *)
(***************************************************************************)
\* connections accepted in one behaviour (client ids 1..MaxClients)
MaxClients == 2
\* 'data' events handled in one behaviour
MaxData == 2
\* highest battle ping sequence number sent by a timer
MaxPing == 1
\* lobby ping ticks that reach one room between two resets of its counter
MaxLobbyPings == 1

(***************************************************************************)
(* Buffers.                                                                *)
(***************************************************************************)
Min(a, b) == IF a < b THEN a ELSE b

Max(a, b) == IF a > b THEN a ELSE b

\* Buffer.slice(start, end) for 0 <= start, 0 <= end: clamped, empty if end <= start
Slice(buf, start, end) ==
    LET s == Min(start, Len(buf))
        e == Min(end, Len(buf))
    IN  IF e <= s THEN <<>> ELSE SubSeq(buf, s + 1, e)

\* buf.slice(0, -1)
DropLast(buf) == IF Len(buf) = 0 THEN <<>> ELSE SubSeq(buf, 1, Len(buf) - 1)

\* buf.indexOf(value, from), 0-based, -1 if absent
IndexOf(buf, value, from) ==
    LET hits == {i \in from..(Len(buf) - 1) : buf[i + 1] = value}
    IN  IF hits = {} THEN -1 ELSE CHOOSE i \in hits : \A j \in hits : i <= j

\* null: slot.clientId, client.roomId, timeoutId (ids and handles start at 1)
Null == 0

\* getFreeSlotInRoom returning null
NoSlot == -1

IsPrefix(pattern, buf) ==
    /\ Len(buf) >= Len(pattern)
    /\ Slice(buf, 0, Len(pattern)) = pattern

\* the elements of a set of numbers in ascending order
RECURSIVE SortedSeq(_)
SortedSeq(set) ==
    IF set = {} THEN <<>>
    ELSE LET m == CHOOSE x \in set : \A y \in set : x <= y
         IN  <<m>> \o SortedSeq(set \ {m})

\* Map.set(key, value) and Map.delete(key)
MapSet(map, key, value) ==
    [k \in (DOMAIN map) \cup {key} |-> IF k = key THEN value ELSE map[k]]

MapDelete(map, key) == [k \in (DOMAIN map) \ {key} |-> map[k]]

\* Set.delete(x) on a Set kept in insertion order
RECURSIVE SeqDelete(_, _)
SeqDelete(s, x) ==
    IF s = <<>> THEN <<>>
    ELSE IF Head(s) = x THEN SeqDelete(Tail(s), x)
    ELSE <<Head(s)>> \o SeqDelete(Tail(s), x)

\* Set.add(x) on a Set kept in insertion order
SeqAdd(s, x) == IF x \in {s[i] : i \in 1..Len(s)} THEN s ELSE Append(s, x)

SeqRange(s) == {s[i] : i \in 1..Len(s)}

(***************************************************************************)
(* Protocol tables (src/server.js).                                        *)
(***************************************************************************)
PLAYER_RACE == [humans |-> <<1>>, aliens |-> <<0>>]

PLAYER_TYPE == [ai_easy |-> <<0>>, ai_hard |-> <<1>>, gamer |-> <<2>>, none |-> <<3>>]

PLAYER_READY == [ready_for_battle |-> <<2>>, not_ready |-> <<1>>, ready |-> <<0>>]

\* PLAYER_INDEX[`p${i}`]: defined for p0..p7 only
PLAYER_INDEX(i) == <<i>>

PlayerIndexDefined(i) == i \in 0..7

\* TEAM_INDEX[`t${i}`]: defined for t0..t7 only
TEAM_INDEX(i) == <<i>>

TeamIndexDefined(i) == i \in 0..7

ROOM_PARAM == [erupting_vents |-> <<2>>, renewable_vents |-> <<3>>]

PLAYER_INIT_PARAM == [player_index |-> <<15>>]

NULL_SEPARATOR == <<0>>

ROOM_COMMANDS ==
    [initial_packet        |-> <<100>>,
     begin_battle          |-> <<118>>,
     ping                  |-> <<113>>,
     player_ready          |-> <<104>>,
     player_name           |-> <<103>>,
     player_chat           |-> <<101>>,
     player_race           |-> <<102>>,
     player_type           |-> <<106>>,
     player_color          |-> <<107>>,
     player_init           |-> <<108>>,
     player_team           |-> <<109>>,
     player_team2          |-> <<110>>,
     room_param            |-> <<111>>,
     room_erupting_vents   |-> <<111, 2, 0>>,
     room_renewable_vents  |-> <<111, 3, 0>>,
     room_map              |-> <<105>>,
     battle_ping1          |-> <<2>>,
     battle_ping2          |-> <<8>>,
     button_building       |-> <<9>>,
     button_unit           |-> <<10>>,
     button_upgrade        |-> <<12>>,
     button_superweapon    |-> <<13>>,
     battle_chat           |-> <<14>>,
     battle_ping3_data     |-> <<17>>,
     battle_ping3          |-> <<18>>,
     game_speed            |-> <<19>>,
     unit_destination_data |-> <<20>>,
     unit_destination      |-> <<21>>,
     unit_attack           |-> <<24>>,
     unit_move             |-> <<25>>,
     unit_inspire          |-> <<26>>]

\* the keys of ROOM_COMMANDS in insertion order, as Object.entries lists them
ROOM_COMMAND_NAMES ==
    <<
      "initial_packet", "begin_battle", "ping", "player_ready", "player_name",
      "player_chat", "player_race", "player_type", "player_color", "player_init",
      "player_team", "player_team2", "room_param", "room_erupting_vents",
      "room_renewable_vents", "room_map", "battle_ping1", "battle_ping2",
      "button_building", "button_unit", "button_upgrade", "button_superweapon",
      "battle_chat", "battle_ping3_data", "battle_ping3", "game_speed",
      "unit_destination_data", "unit_destination", "unit_attack", "unit_move",
      "unit_inspire" >>

(***************************************************************************)
(* Frame codec, outbound: sendCommandPacket.                               *)
(***************************************************************************)
\* totalLen = 2 + payload.length + 1
TotalLen(payload) == 2 + Len(payload) + 1

\* lenLow = totalLen & 0xFF
LenLow(totalLen) == totalLen % 256

LenHigh_noShift(totalLen) == totalLen % 16

\* lenHigh = (totalLen >> 8) & 0x0F
LenHigh(totalLen) == (totalLen \div 256) % 16

\* counterNibble = (counterByteValue >> 4) & 0x0F
CounterNibble(packetCounter) == (packetCounter \div 16) % 16

\* counterByte = (counterNibble << 4) | lenHigh
CounterByte(packetCounter, lenHigh) == CounterNibble(packetCounter) * 16 + lenHigh

AdvanceCounter_wrapEarly(packetCounter) ==
    IF packetCounter + 16 >= 240 THEN 0 ELSE packetCounter + 16

\* socket.__packetCounter += 0x10; if (> 0xF0) socket.__packetCounter = 0x00
AdvanceCounter(packetCounter) ==
    IF packetCounter + 16 > 240 THEN 0 ELSE packetCounter + 16

\* the packet buffer: lenLow, counterByte, payload, 0x00
EncodePacket(packetCounter, payload) ==
    <<LenLow(TotalLen(payload)), CounterByte(packetCounter, LenHigh(TotalLen(payload)))>>
        \o payload \o <<0>>

\* if (totalLen > 0x0FFF) return
PacketTooLong(payload) == TotalLen(payload) > 4095

(***************************************************************************)
(* Frame codec, inbound: the collection loop of parseClientBinary.         *)
(***************************************************************************)
\* cmdLength = lenLow | (lenHigh << 8), lenHigh = buf[offset + 1] & 0x0f
CmdLength(buf, offset) == buf[offset + 1] + (buf[offset + 2] % 16) * 256

\* commandData = buf.slice(offset + 2, offset + cmdLength)
CommandData_dropTerminator(buf, offset, cmdLength) ==
    Slice(buf, offset + 2, offset + cmdLength - 1)

CommandData(buf, offset, cmdLength) == Slice(buf, offset + 2, offset + cmdLength)

\* The while loop.  An iteration that leaves offset where it was repeats
\* itself for ever (each round pushes one more empty command): hung.
RECURSIVE CollectLoop(_, _, _)
CollectLoop(buf, offset, commandList) ==
    IF ~(offset < Len(buf)) THEN [hung |-> FALSE, commandList |-> commandList]
    ELSE IF offset + 2 > Len(buf) THEN [hung |-> FALSE, commandList |-> commandList]
    ELSE LET cmdLength == CmdLength(buf, offset)
         IN  IF offset + cmdLength > Len(buf)
             THEN [hung |-> FALSE, commandList |-> commandList]
             ELSE IF offset + cmdLength = offset
             THEN [hung |-> TRUE, commandList |-> commandList]
             ELSE CollectLoop(buf, offset + cmdLength,
                              Append(commandList, CommandData(buf, offset, cmdLength)))

CollectFrames(buf) == CollectLoop(buf, 0, <<>>)

(***************************************************************************)
(* Math.random(): a value in [0, 1), drawn from a small set of fractions.  *)
(***************************************************************************)
RandomUnit == {[num |-> 0, den |-> 8], [num |-> 7, den |-> 8]}

\* Math.floor(Math.random() * n)
RandomIndex(rnd, n) == (rnd.num * n) \div rnd.den

\* getRandomRace: Math.random() < 0.5 ? 'humans' : 'aliens'
GetRandomRace(rnd) == IF 2 * rnd.num < rnd.den THEN "humans" ELSE "aliens"

\* the eight draws of one createRoom or resetRoomBattleState
RaceDraws == {[i \in 0..7 |-> [num |-> (i % 2) * 7, den |-> 8]]}

(***************************************************************************)
(* ASCII strings of the program.                                           *)
(***************************************************************************)
Str_spectator == <<115, 112, 101, 99, 116, 97, 116, 111, 114>>

Str_battle_bot == <<98, 97, 116, 116, 108, 101, 95, 98, 111, 116>>

Str_Player == <<80, 108, 97, 121, 101, 114>>

\* a small number as decimal digits
RECURSIVE Decimal(_)
Decimal(n) == IF n < 10 THEN <<48 + n>> ELSE Decimal(n \div 10) \o <<48 + (n % 10)>>

\* `Player${index}`
PlayerN(index) == Str_Player \o Decimal(index)

Str_Welcome ==
    <<87, 101, 108, 99, 111, 109, 101, 32, 116, 111, 32, 116, 104, 101, 32, 119,
      111, 114, 108, 100, 32, 111, 102, 32, 68, 97, 114, 107, 32, 67, 111, 108,
      111, 110, 121, 33>>

Str_Room == <<82, 111, 111, 109, 58, 32>>

Str_RandomSlot ==
    <<82, 97, 110, 100, 111, 109, 32, 115, 108, 111, 116, 32, 97, 115, 115, 105,
      103, 110, 101, 100, 58, 32>>

\* room.map, the same in every room and never changed
RoomMap ==
    [type        |-> <<68>>,
     playerCount |-> <<56>>,
     filename    |-> <<80, 76, 65, 89, 48, 49, 46, 83, 67, 78>>,
     displayName |-> <<65, 114, 109, 97, 103, 101, 100, 100, 111, 110, 10, 32, 32,
                       32, 32, 32, 32, 32, 32, 32, 32, 32, 32, 32, 32, 32, 32, 32,
                       32, 32, 32, 32, 32, 32, 32, 32, 32, 32, 32, 32, 32, 32, 32,
                       32, 40, 56, 32, 80, 108, 97, 121, 101, 114, 32, 68, 101,
                       115, 101, 114, 116, 32, 77, 97, 112, 32, 41>>]

(***************************************************************************)
(* Sending.  S is the server state: rooms, roomPingCounters, clients,      *)
(* sockets, timers, out, proc.                                             *)
(***************************************************************************)
\* throw: the exception leaves the handler and ends the process
Throw(S) == [S EXCEPT !.proc = "crashed"]

\* safeWrite after sendCommandPacket built the packet
\* socket.write(data) returns false when the data could not be flushed (the
\* peer does not read and the buffer is at its high-water mark); safeWrite
\* then only registers a 'drain' listener that logs.  writableNeedDrain is the
\* socket's own flag; wroteUndrained records that write was called while it
\* was set.
SafeWrite(S, sid, packet) ==
    [S EXCEPT !.out[sid] = Append(@, packet),
              !.sockets[sid].wroteUndrained = @ \/ S.sockets[sid].writableNeedDrain,
              !.sockets[sid].writableNeedDrain = @ \/ S.sockets[sid].congested]

SendCommandPacket(S, sid, command, data) ==
    LET socket  == S.sockets[sid]
        payload == command \o data
    IN  IF socket.destroyed THEN S
        ELSE IF PacketTooLong(payload) THEN S
        ELSE SafeWrite(
                 [S EXCEPT !.sockets[sid].packetCounter = AdvanceCounter(@)],
                 sid, EncodePacket(socket.packetCounter, payload))

RECURSIVE BroadcastLoop(_, _, _, _, _)
BroadcastLoop(S, ids, command, data, excludeClientId) ==
    IF ids = <<>> THEN S
    ELSE LET clientId == Head(ids)
             S1 == IF clientId = excludeClientId THEN S
                   ELSE IF clientId \in DOMAIN S.clients /\ ~S.sockets[clientId].destroyed
                   THEN SendCommandPacket(S, clientId, command, data)
                   ELSE S
         IN  BroadcastLoop(S1, Tail(ids), command, data, excludeClientId)

BroadcastCommandPacket_first(S, roomId, command, data, excludeClientId) ==
    BroadcastLoop(S, SubSeq(S.rooms[roomId].clients, 1, 1), command, data, excludeClientId)

BroadcastCommandPacket(S, roomId, command, data, excludeClientId) ==
    BroadcastLoop(S, S.rooms[roomId].clients, command, data, excludeClientId)

SendRoomGreeting(S, sid, playerSlotIndex) ==
    SendCommandPacket(S, sid, ROOM_COMMANDS.initial_packet,
        PLAYER_INIT_PARAM.player_index \o NULL_SEPARATOR
            \o PLAYER_INDEX(playerSlotIndex) \o NULL_SEPARATOR)

\* bytesInit
RECURSIVE BytesInit(_)
BytesInit(i) ==
    IF i > 7 THEN <<>>
    ELSE ROOM_COMMANDS.player_init \o NULL_SEPARATOR \o PLAYER_INDEX(i) \o BytesInit(i + 1)

\* playerBytes of one slot
PlayerBytes(slot, index) ==
    LET playerIndex == PLAYER_INDEX(index)
        playerRace  == IF slot.race = "humans" THEN PLAYER_RACE.humans ELSE PLAYER_RACE.aliens
        playerType  == PLAYER_TYPE[slot.type]
        playerTeam  == TEAM_INDEX(slot.team)
        playerReady == IF slot.ready THEN PLAYER_READY.ready ELSE PLAYER_READY.not_ready
    IN  ROOM_COMMANDS.player_name \o playerIndex \o NULL_SEPARATOR \o slot.name \o <<0>>
        \o ROOM_COMMANDS.player_race \o playerRace \o playerIndex
        \o ROOM_COMMANDS.player_type \o playerType \o playerIndex
        \o ROOM_COMMANDS.player_color \o <<slot.color % 256>> \o playerIndex
        \o ROOM_COMMANDS.player_team2 \o playerTeam \o playerIndex
        \o ROOM_COMMANDS.player_ready \o playerReady \o playerIndex

RECURSIVE PlayerBytesArray(_, _)
PlayerBytesArray(playerSlots, i) ==
    IF i > 7 THEN <<>>
    ELSE PlayerBytes(playerSlots[i], i) \o PlayerBytesArray(playerSlots, i + 1)

\* one room_param tuple
RoomParamBytes(index, value) == ROOM_COMMANDS.room_param \o <<index, 0, value, 0>>

BytesParams ==
    RoomParamBytes(0, 0) \o RoomParamBytes(1, 0)
    \o RoomParamBytes(ROOM_PARAM.erupting_vents[1], 1)
    \o RoomParamBytes(ROOM_PARAM.renewable_vents[1], 0)
    \o RoomParamBytes(4, 4) \o RoomParamBytes(5, 4) \o RoomParamBytes(6, 0)
    \o RoomParamBytes(7, 184) \o RoomParamBytes(8, 1) \o RoomParamBytes(9, 0)
    \o RoomParamBytes(10, 0) \o RoomParamBytes(11, 0) \o RoomParamBytes(12, 0)
    \o RoomParamBytes(13, 0) \o RoomParamBytes(14, 0) \o RoomParamBytes(15, 0)

\* `...playerTeam` with TEAM_INDEX[`t${slot.team}`] undefined: TypeError
RoomDataThrows(room) == \E i \in 0..7 : ~TeamIndexDefined(room.playerSlots[i].team)

\* bytesInit for the eight slots
BytesInitAll == BytesInit(0)

RoomDataBytes(room) ==
    <<0, 0>> \o BytesInitAll \o PlayerBytesArray(room.playerSlots, 0) \o BytesParams

SendRoomData(S, sid, room) ==
    IF RoomDataThrows(room) THEN Throw(S)
    ELSE SendCommandPacket(S, sid, ROOM_COMMANDS.room_map, RoomDataBytes(room))

SendMapPacket(S, sid, room) ==
    SendCommandPacket(S, sid, ROOM_COMMANDS.room_map,
        RoomMap.type \o RoomMap.playerCount \o RoomMap.filename \o <<0>> \o RoomMap.displayName)

RECURSIVE BroadcastRoomUpdateLoop(_, _, _, _)
BroadcastRoomUpdateLoop(S, ids, roomId, excludeClientId) ==
    IF ids = <<>> \/ S.proc # "running" THEN S
    ELSE LET clientId == Head(ids)
             ThenMap(S2) == IF S2.proc # "running" THEN S2
                            ELSE SendMapPacket(S2, clientId, S.rooms[roomId])
             S1 == IF clientId = excludeClientId THEN S
                   ELSE IF clientId \in DOMAIN S.clients /\ ~S.sockets[clientId].destroyed
                   THEN ThenMap(SendRoomData(S, clientId, S.rooms[roomId]))
                   ELSE S
         IN  BroadcastRoomUpdateLoop(S1, Tail(ids), roomId, excludeClientId)

BroadcastRoomUpdate_none(S, roomId, excludeClientId) == S

BroadcastRoomUpdate(S, roomId, excludeClientId) ==
    BroadcastRoomUpdateLoop(S, S.rooms[roomId].clients, roomId, excludeClientId)

(***************************************************************************)
(* Timers.  A handle stands for the value setTimeout returns: the client   *)
(* the callback closes over, and the lowest number that no pending timer   *)
(* of that client and not its timeoutId field uses.                        *)
(***************************************************************************)
UsedHandles(S, id) ==
    {t.handle : t \in {u \in S.timers : u.id = id}}
        \cup (IF id \in DOMAIN S.clients
              THEN {S.clients[id].battlePingState.timeoutId} ELSE {})

NewHandle(S, id) ==
    CHOOSE h \in 1..(Cardinality(UsedHandles(S, id)) + 1) :
        /\ h \notin UsedHandles(S, id)
        /\ \A g \in 1..(h - 1) : g \in UsedHandles(S, id)

\* setTimeout(callback, delay): kind names the callback, the rest is its closure
SetTimeout(S, kind, id, roomId, slotIndex, hadExistingClients) ==
    [S EXCEPT !.timers = @ \cup {[kind |-> kind, id |-> id, handle |-> NewHandle(S, id),
                                  roomId |-> roomId, slotIndex |-> slotIndex,
                                  hadExistingClients |-> hadExistingClients]}]

ClearTimeout_keep(S, id, handle) == S

\* clearTimeout(handle) for a handle of client id
ClearTimeout(S, id, handle) ==
    [S EXCEPT !.timers = {t \in @ : ~(t.id = id /\ t.handle = handle)}]

(***************************************************************************)
(* Room manager.                                                           *)
(***************************************************************************)
\* the playerSlots array of createRoom
CreateRoomSlots(draws) ==
    [i \in 0..7 |->
        IF i = 0
        THEN [clientId |-> Null, name |-> Str_spectator, race |-> GetRandomRace(draws[i]),
              type |-> "gamer", team |-> 0, ready |-> FALSE, color |-> 0]
        ELSE [clientId |-> Null, name |-> PlayerN(i), race |-> GetRandomRace(draws[i]),
              type |-> "none", team |-> i, ready |-> TRUE, color |-> i]]

\* while (rooms.has(roomId)) roomId++
RECURSIVE CreateRoomIdFrom(_, _)
CreateRoomIdFrom(S, roomId) ==
    IF roomId \in DOMAIN S.rooms THEN CreateRoomIdFrom(S, roomId + 1) ELSE roomId

CreateRoomId_highest(S) ==
    IF DOMAIN S.rooms = {} THEN 1
    ELSE (CHOOSE r \in DOMAIN S.rooms : \A q \in DOMAIN S.rooms : q <= r) + 1

\* let roomId = 1; ...
CreateRoomId(S) == CreateRoomIdFrom(S, 1)

CreateRoom(S, draws) ==
    LET roomId == CreateRoomId(S)
        room   == [clients |-> <<>>, inBattle |-> FALSE, playerSlots |-> CreateRoomSlots(draws)]
    IN  [S EXCEPT !.rooms = MapSet(@, roomId, room),
                  !.roomPingCounters = MapSet(@, roomId, 0)]

FreeSlots_anyType(room) ==
    SortedSeq({i \in 0..7 : room.playerSlots[i].clientId = Null})

\* room.playerSlots.filter(slot => slot.clientId === null && slot.type === 'none')
FreeSlots(room) ==
    SortedSeq({i \in 0..7 : room.playerSlots[i].clientId = Null
                            /\ room.playerSlots[i].type = "none"})

RoomAvailable_ignoreBattle(room) == Len(FreeSlots(room)) > 0

RoomAvailable_full(room) == ~room.inBattle

\* the test of getAvailableRoom's loop
RoomAvailable(room) == ~room.inBattle /\ Len(FreeSlots(room)) > 0

AvailableRooms(S) == {r \in DOMAIN S.rooms : RoomAvailable(S.rooms[r])}

PickRoom_highest(available) == CHOOSE r \in available : \A q \in available : q <= r

\* availableRooms.sort((a, b) => a.id - b.id); availableRooms[0]
PickRoom(available) == CHOOSE r \in available : \A q \in available : r <= q

\* returns the state (a room may have been created) and the room's id
GetAvailableRoom(S, draws) ==
    IF AvailableRooms(S) # {}
    THEN [S |-> S, roomId |-> PickRoom(AvailableRooms(S))]
    ELSE [S |-> CreateRoom(S, draws), roomId |-> CreateRoomId(S)]

\* the index of the slot returned, NoSlot for null
GetFreeSlotInRoom(room, rnd) ==
    LET freeSlots == FreeSlots(room)
    IN  IF Len(freeSlots) = 0 THEN NoSlot
        ELSE freeSlots[RandomIndex(rnd, Len(freeSlots)) + 1]

GetAvailableColor(room, rnd) ==
    LET usedColors == {room.playerSlots[i].color :
                          i \in {j \in 0..7 : room.playerSlots[j].type
                                                  \in {"gamer", "ai_easy", "ai_hard"}}}
        freeColors == (0..7) \ usedColors
    IN  IF freeColors # {} THEN CHOOSE c \in freeColors : \A d \in freeColors : c <= d
        ELSE RandomIndex(rnd, 8)

\* returns the state and { slotIndex, hadExistingClients }, ok FALSE for null
AddClientToRoom(S, clientId, roomId, slotRnd, colorRnd) ==
    LET room == S.rooms[roomId]
        Take(slotIndex) ==
            IF slotIndex = NoSlot
            THEN [S |-> S, ok |-> FALSE, slotIndex |-> NoSlot, hadExistingClients |-> FALSE]
            ELSE LET hadExistingClients == Len(room.clients) > 0
                     availableColor     == GetAvailableColor(room, colorRnd)
                     Fill(S1) ==
                         IF clientId \in DOMAIN S1.clients
                         THEN [S1 EXCEPT
                                 !.clients[clientId].roomId = roomId,
                                 !.clients[clientId].playerSlotIndex = slotIndex,
                                 !.rooms[roomId].playerSlots[slotIndex] =
                                     [@ EXCEPT !.clientId = clientId, !.type = "gamer",
                                               !.ready = FALSE, !.color = availableColor]]
                         ELSE S1
                 IN  [S |-> Fill([S EXCEPT !.rooms[roomId].clients = SeqAdd(@, clientId)]),
                      ok |-> TRUE, slotIndex |-> slotIndex,
                      hadExistingClients |-> hadExistingClients]
    IN  Take(GetFreeSlotInRoom(room, slotRnd))

ResetRoomBattleState_keep(S, roomId, draws) == S

ResetRoomBattleState(S, roomId, draws) ==
    [S EXCEPT
       !.rooms[roomId].inBattle = FALSE,
       !.roomPingCounters = MapSet(@, roomId, 0),
       !.rooms[roomId].playerSlots =
           [i \in 0..7 |->
               IF i = 0
               THEN [clientId |-> Null, name |-> Str_battle_bot,
                     race |-> GetRandomRace(draws[i]), type |-> "ai_hard",
                     team |-> 0, ready |-> FALSE, color |-> 0]
               ELSE [clientId |-> Null, name |-> PlayerN(i),
                     race |-> GetRandomRace(draws[i]), type |-> "none",
                     team |-> i, ready |-> TRUE, color |-> i]]]

DeletesWhenEmpty_never(roomId) == FALSE

\* if (room.id > 1): an emptied room is deleted unless it is the first room
DeletesWhenEmpty(roomId) == roomId > 1

FreedSlot_keepType(slot) == [slot EXCEPT !.clientId = Null, !.ready = TRUE]

\* slot.clientId = null; slot.type = 'none'; slot.ready = true
FreedSlot(slot) == [slot EXCEPT !.clientId = Null, !.type = "none", !.ready = TRUE]

RemoveClientFromRoom(S, clientId, draws) ==
    IF clientId \notin DOMAIN S.clients THEN S
    ELSE IF S.clients[clientId].roomId = Null THEN S
    ELSE IF S.clients[clientId].roomId \notin DOMAIN S.rooms THEN S
    ELSE
      LET client == S.clients[clientId]
          roomId == client.roomId
          \* rooms.delete(room.id) for an emptied room that is not room 1
          Delete(S4) ==
              IF DeletesWhenEmpty(roomId)
              THEN [S4 EXCEPT !.rooms = MapDelete(@, roomId),
                              !.roomPingCounters = MapDelete(@, roomId)]
              ELSE S4
          \* if (room.clients.size === 0)
          WhenEmpty(S3) ==
              IF S3.proc # "running" THEN S3
              ELSE IF Len(S3.rooms[roomId].clients) = 0
              THEN Delete(ResetRoomBattleState(S3, roomId, draws))
              ELSE S3
          \* if (room.clients.size > 0) broadcastRoomUpdate(room)
          WhenOthers(S2) ==
              WhenEmpty(IF Len(S2.rooms[roomId].clients) > 0
                        THEN BroadcastRoomUpdate(S2, roomId, Null)
                        ELSE S2)
          \* reset the player slot
          ResetSlot(S1) ==
              WhenOthers(IF client.playerSlotIndex \in 0..7
                         THEN [S1 EXCEPT !.rooms[roomId].playerSlots[client.playerSlotIndex] =
                                             FreedSlot(@)]
                         ELSE S1)
      IN  ResetSlot([S EXCEPT !.rooms[roomId].clients = SeqDelete(@, clientId)])

CheckAllClientsInitiatedBattle_any(S, roomId) ==
    \E i \in 1..Len(S.rooms[roomId].clients) :
        LET clientId == S.rooms[roomId].clients[i]
        IN  clientId \in DOMAIN S.clients /\ S.clients[clientId].battleInitiated

CheckAllClientsInitiatedBattle(S, roomId) ==
    /\ Len(S.rooms[roomId].clients) # 0
    /\ \A i \in 1..Len(S.rooms[roomId].clients) :
          LET clientId == S.rooms[roomId].clients[i]
          IN  clientId \in DOMAIN S.clients /\ S.clients[clientId].battleInitiated

StartRoomBattle_never(S, roomId) == S

StartRoomBattle(S, roomId) == [S EXCEPT !.rooms[roomId].inBattle = TRUE]

\* client.battlePingState = null
NoBattlePingState ==
    [alloc |-> FALSE, counter |-> 0, initialPacketCounter |-> 0,
     waitingForEcho |-> FALSE, timeoutId |-> Null]

\* socket.destroy(): the 'close' event follows in a later turn of the loop
SocketDestroy(S, sid) == [S EXCEPT !.sockets[sid].destroyed = TRUE]

\* without the test, client.battlePingState of undefined throws in the handler
NoClient_throws(S) == [S EXCEPT !.proc = "crashed"]

\* if (!client) return
NoClient(S) == S

Disconnect(S, id, draws) ==
    IF id \notin DOMAIN S.clients THEN NoClient(S)
    ELSE LET Destroy(S2) == [SocketDestroy(S2, id) EXCEPT !.clients = MapDelete(@, id)]
             \* clean up battle ping state if exists
             CleanUp(S1) ==
                 IF S1.proc # "running" THEN S1
                 ELSE LET state == S1.clients[id].battlePingState
                      IN  Destroy(IF state.alloc
                                  THEN [(IF state.timeoutId # Null
                                         THEN ClearTimeout(S1, id, state.timeoutId) ELSE S1)
                                          EXCEPT !.clients[id].battlePingState = NoBattlePingState]
                                  ELSE S1)
         IN  CleanUp(RemoveClientFromRoom(S, id, draws))

(***************************************************************************)
(* Battle-ping driver.                                                     *)
(***************************************************************************)
\* buf.writeUInt32LE(value, offset), for value < 2^32
UInt32LE(value) ==
    <<value % 256, (value \div 256) % 256, (value \div 65536) % 256,
      (value \div 16777216) % 256>>

\* The client object outlives clients.delete(id) in the timer closures; its
\* battlePingState is null from then on, so a deleted id is the null state.
SendNextBattlePing(S, id) ==
    IF id \notin DOMAIN S.clients THEN S
    ELSE LET state == S.clients[id].battlePingState
         IN  IF ~state.alloc \/ state.waitingForEcho THEN S
             ELSE LET buf1 == UInt32LE(state.counter)
                                \o UInt32LE(state.initialPacketCounter + state.counter)
                      Arm(S1) ==
                          [SetTimeout(S1, "pingTimeout", id, Null, NoSlot, FALSE)
                             EXCEPT !.clients[id].battlePingState.waitingForEcho = TRUE,
                                    !.clients[id].battlePingState.timeoutId = NewHandle(S1, id)]
                  IN  Arm(SendCommandPacket(S, id, ROOM_COMMANDS.battle_ping1, buf1))

BattlePingTimeoutCallback_resend(S, id) ==
    IF id \in DOMAIN S.clients
       /\ S.clients[id].battlePingState.alloc
       /\ S.clients[id].battlePingState.waitingForEcho
    THEN SendNextBattlePing(
             [S EXCEPT !.clients[id].battlePingState.waitingForEcho = FALSE], id)
    ELSE S

\* the callback of the BATTLE_PING_TIMEOUT_MS timer
BattlePingTimeoutCallback(S, id) ==
    IF id \in DOMAIN S.clients
       /\ S.clients[id].battlePingState.alloc
       /\ S.clients[id].battlePingState.waitingForEcho
    THEN SendNextBattlePing(
             [S EXCEPT !.clients[id].battlePingState.waitingForEcho = FALSE,
                       !.clients[id].battlePingState.counter = @ + 1], id)
    ELSE S

\* the callback of the BATTLE_PING_INTERVAL_MS timer
NextPingCallback(S, id) ==
    IF id \in DOMAIN S.clients /\ S.clients[id].battlePingState.alloc
    THEN SendNextBattlePing(S, id)
    ELSE S

HandleBattlePingEcho_keepTimeout(S, id) ==
    IF id \notin DOMAIN S.clients THEN S
    ELSE LET state == S.clients[id].battlePingState
         IN  IF ~state.alloc \/ ~state.waitingForEcho THEN S
             ELSE SetTimeout(
                      [S EXCEPT !.clients[id].battlePingState.waitingForEcho = FALSE,
                                !.clients[id].battlePingState.counter = @ + 1],
                      "nextPing", id, Null, NoSlot, FALSE)

HandleBattlePingEcho_noInterval(S, id) ==
    IF id \notin DOMAIN S.clients THEN S
    ELSE LET state == S.clients[id].battlePingState
         IN  IF ~state.alloc \/ ~state.waitingForEcho THEN S
             ELSE [ClearTimeout(S, id, state.timeoutId)
                     EXCEPT !.clients[id].battlePingState.timeoutId = Null,
                            !.clients[id].battlePingState.waitingForEcho = FALSE,
                            !.clients[id].battlePingState.counter = @ + 1]

HandleBattlePingEcho(S, id) ==
    IF id \notin DOMAIN S.clients THEN S
    ELSE LET state == S.clients[id].battlePingState
         IN  IF ~state.alloc \/ ~state.waitingForEcho THEN S
             ELSE LET S1 == IF state.timeoutId # Null
                            THEN [ClearTimeout(S, id, state.timeoutId)
                                    EXCEPT !.clients[id].battlePingState.timeoutId = Null]
                            ELSE S
                      S2 == [S1 EXCEPT !.clients[id].battlePingState.waitingForEcho = FALSE,
                                       !.clients[id].battlePingState.counter = @ + 1]
                  IN  SetTimeout(S2, "nextPing", id, Null, NoSlot, FALSE)

(***************************************************************************)
(* Command parser: the dispatch loop of parseClientBinary.                 *)
(***************************************************************************)
\* the first entry of ROOM_COMMANDS whose pattern starts commandData (its
\* position in ROOM_COMMAND_NAMES), 0 if none
MatchCommand(commandData) ==
    LET hits == {k \in 1..Len(ROOM_COMMAND_NAMES) :
                    IsPrefix(ROOM_COMMANDS[ROOM_COMMAND_NAMES[k]], commandData)}
    IN  IF hits = {} THEN 0 ELSE CHOOSE k \in hits : \A j \in hits : k <= j

Remaining_keep(commandData, pattern) ==
    Slice(commandData, Len(pattern), Len(commandData))

\* remaining = commandData.slice(pattern.length), less one trailing 0x00
Remaining(commandData, pattern) ==
    LET remaining == Slice(commandData, Len(pattern), Len(commandData))
    IN  IF Len(remaining) > 0 /\ remaining[Len(remaining)] = 0
        THEN DropLast(remaining) ELSE remaining

\* buf.toString('ascii'): the high bit of every byte is dropped
RECURSIVE ToAsciiString(_)
ToAsciiString(buf) ==
    IF buf = <<>> THEN <<>> ELSE <<Head(buf) % 128>> \o ToAsciiString(Tail(buf))

\* str.replace(/[^\x20-\x7e]/g, '')
RECURSIVE Printable(_)
Printable(str) ==
    IF str = <<>> THEN <<>>
    ELSE (IF Head(str) >= 32 /\ Head(str) <= 126 THEN <<Head(str)>> ELSE <<>>)
             \o Printable(Tail(str))

\* str.replace(/\r|\n/g, '')
RECURSIVE NoCrLf(_)
NoCrLf(str) ==
    IF str = <<>> THEN <<>>
    ELSE (IF Head(str) = 13 \/ Head(str) = 10 THEN <<>> ELSE <<Head(str)>>)
             \o NoCrLf(Tail(str))

\* playerName.replace(...).slice(0,32) || `Player${playerOrdinal}`
SanitizedName(playerName, playerOrdinal) ==
    LET clean == Slice(Printable(playerName), 0, 32)
    IN  IF clean = <<>> THEN PlayerN(playerOrdinal) ELSE clean

TargetSlot_sender(S, id, playerOrdinal) == S.clients[id].playerSlotIndex

\* room.playerSlots[playerOrdinal]: the slot is the one the command names
TargetSlot(S, id, playerOrdinal) == playerOrdinal

DispatchPlayerName(S, id, remaining) ==
    IF Len(remaining) >= 2
    THEN LET playerOrdinal == remaining[1]
             found         == IndexOf(remaining, 0, 2)
             nameEnd       == IF found = -1 THEN Len(remaining) ELSE found
             playerName    == ToAsciiString(Slice(remaining, 2, nameEnd))
             roomId        == S.clients[id].roomId
             Rename(name)  ==
                 BroadcastCommandPacket(
                     [S EXCEPT !.rooms[roomId].playerSlots[TargetSlot(S, id, playerOrdinal)].name = name],
                     roomId, ROOM_COMMANDS.player_name,
                     <<playerOrdinal, 0>> \o name \o <<0>>, Null)
         IN  IF roomId \in DOMAIN S.rooms
             THEN IF playerOrdinal \in 0..7
                  THEN Rename(SanitizedName(playerName, playerOrdinal))
                  ELSE Throw(S)   \* slot is undefined: slot.name is a TypeError
             ELSE S
    ELSE S

DispatchPlayerChat(S, id, remaining) ==
    LET found   == IndexOf(remaining, 0, 0)
        end     == IF found = -1 THEN Len(remaining) ELSE found
        chatMsg == ToAsciiString(Slice(remaining, 0, end))
        roomId  == S.clients[id].roomId
    IN  IF roomId \in DOMAIN S.rooms
        THEN BroadcastCommandPacket(S, roomId, ROOM_COMMANDS.player_chat,
                 Slice(NoCrLf(chatMsg), 0, 120) \o <<0>>, Null)
        ELSE S

AllClientsReady_always(S, roomId) == TRUE

\* every client of the room has its slot ready
AllClientsReady(S, roomId) ==
    \A i \in 1..Len(S.rooms[roomId].clients) :
        LET clientId == S.rooms[roomId].clients[i]
        IN  (clientId \in DOMAIN S.clients /\ S.clients[clientId].playerSlotIndex \in 0..7)
                => S.rooms[roomId].playerSlots[S.clients[clientId].playerSlotIndex].ready

DispatchPlayerReady(S, id) ==
    LET client      == S.clients[id]
        playerIndex == PLAYER_INDEX(client.playerSlotIndex)
        roomId      == client.roomId
        \* all clients ready: slot 0 is made ready too
        Slot0(S2) ==
            IF AllClientsReady(S2, roomId) /\ Len(S2.rooms[roomId].clients) > 0
               /\ ~S2.rooms[roomId].playerSlots[0].ready
            THEN BroadcastCommandPacket(
                     [S2 EXCEPT !.rooms[roomId].playerSlots[0].ready = TRUE],
                     roomId, ROOM_COMMANDS.player_ready,
                     PLAYER_READY.ready_for_battle \o PLAYER_INDEX(0), Null)
            ELSE S2
    IN  IF roomId \in DOMAIN S.rooms
        THEN Slot0(BroadcastCommandPacket(
                 IF client.playerSlotIndex \in 0..7
                 THEN [S EXCEPT !.rooms[roomId].playerSlots[client.playerSlotIndex].ready = TRUE]
                 ELSE S,
                 roomId, ROOM_COMMANDS.player_ready,
                 PLAYER_READY.ready_for_battle \o playerIndex, Null))
        ELSE S

\* player_race, player_color, player_team: field names the slot field set
DispatchSlotField(S, id, name, remaining) ==
    IF Len(remaining) >= 2
    THEN LET value         == remaining[1]
             playerOrdinal == remaining[2]
             roomId        == S.clients[id].roomId
         IN  IF roomId \in DOMAIN S.rooms
             THEN LET S1 == IF playerOrdinal \in 0..7
                            THEN CASE name = "player_race" ->
                                        [S EXCEPT !.rooms[roomId].playerSlots[TargetSlot(S, id, playerOrdinal)].race =
                                                      IF value = 1 THEN "humans" ELSE "aliens"]
                                   [] name = "player_color" ->
                                        [S EXCEPT !.rooms[roomId].playerSlots[TargetSlot(S, id, playerOrdinal)].color = value]
                                   [] name = "player_team" ->
                                        [S EXCEPT !.rooms[roomId].playerSlots[TargetSlot(S, id, playerOrdinal)].team = value]
                            ELSE S
                  IN  BroadcastCommandPacket(S1, roomId, ROOM_COMMANDS[name], remaining, Null)
             ELSE S
    ELSE S

InitialPacketCounter_nibble(packetCounter) == CounterNibble(packetCounter)

\* initialPacketCounter: client.socket.__packetCounter || 0
InitialPacketCounter(packetCounter) == packetCounter

BattleStarts_once(S, roomId) ==
    CheckAllClientsInitiatedBattle(S, roomId) /\ ~S.rooms[roomId].inBattle

\* the test of the begin_battle branch: room.inBattle is not looked at
BattleStarts(S, roomId) == CheckAllClientsInitiatedBattle(S, roomId)

DispatchBeginBattle(S, id) ==
    LET roomId == S.clients[id].roomId
        \* client.battlePingState = { counter: 0, ... }; sendNextBattlePing(client)
        Fresh(S3) ==
            SendNextBattlePing(
                [S3 EXCEPT !.clients[id].battlePingState =
                    [alloc |-> TRUE, counter |-> 0,
                     initialPacketCounter |->
                         InitialPacketCounter(S3.sockets[id].packetCounter),
                     waitingForEcho |-> FALSE, timeoutId |-> Null]], id)
        \* clearTimeout of the previous state's timer
        Ping(S2) ==
            LET old == S2.clients[id].battlePingState
            IN  Fresh(IF old.alloc /\ old.timeoutId # Null
                      THEN ClearTimeout(S2, id, old.timeoutId) ELSE S2)
        \* if (room && checkAllClientsInitiatedBattle(room))
        Initiated(S1) ==
            Ping(IF roomId \in DOMAIN S1.rooms /\ BattleStarts(S1, roomId)
                 THEN BroadcastCommandPacket(StartRoomBattle(S1, roomId), roomId,
                          ROOM_COMMANDS.game_speed, <<33, 0, 0, 0>>, Null)
                 ELSE S1)
    IN  Initiated([S EXCEPT !.clients[id].battleInitiated = TRUE])

\* the branches that rebroadcast remaining to the room
RelayNames ==
    {"unit_attack", "unit_destination_data", "unit_destination", "button_unit",
     "button_building", "unit_inspire", "button_upgrade", "button_superweapon",
     "battle_chat", "game_speed"}

DispatchRelay_others(S, id, name, data) ==
    IF S.clients[id].roomId \in DOMAIN S.rooms
    THEN BroadcastCommandPacket(S, S.clients[id].roomId, ROOM_COMMANDS[name], data, id)
    ELSE S

DispatchRelay(S, id, name, data) ==
    IF S.clients[id].roomId \in DOMAIN S.rooms
    THEN BroadcastCommandPacket(S, S.clients[id].roomId, ROOM_COMMANDS[name], data, Null)
    ELSE S

UnknownCommand_destroys(S, id, commandData) == SocketDestroy(S, id)

\* if (!matched) log(`Unknown Command from Client ...`)
UnknownCommand(S, id, commandData) == S

\* one round of the loop over commandList
DispatchCommand(S, id, commandData) ==
    LET Branch(name, remaining) ==
            CASE name = "player_name"  -> DispatchPlayerName(S, id, remaining)
              [] name = "player_chat"  -> DispatchPlayerChat(S, id, remaining)
              [] name = "player_ready" -> DispatchPlayerReady(S, id)
              [] name \in {"player_race", "player_color", "player_team"}
                                       -> DispatchSlotField(S, id, name, remaining)
              [] name = "begin_battle" -> DispatchBeginBattle(S, id)
              [] name = "battle_ping1" -> HandleBattlePingEcho(S, id)
              [] name = "unit_move"    ->
                   DispatchRelay(S, id, name,
                       IF Len(remaining) > 0 /\ remaining[Len(remaining)] = 0
                       THEN DropLast(remaining) ELSE remaining)
              [] name \in RelayNames   -> DispatchRelay(S, id, name, remaining)
              [] OTHER                 -> S    \* logged only
        Matched(k) ==
            IF k = 0 THEN UnknownCommand(S, id, commandData)
            ELSE Branch(ROOM_COMMAND_NAMES[k],
                        Remaining(commandData, ROOM_COMMANDS[ROOM_COMMAND_NAMES[k]]))
    IN  Matched(MatchCommand(commandData))

DispatchLoop_firstOnly(S, id, commandList) ==
    IF commandList = <<>> \/ S.proc # "running" THEN S
    ELSE DispatchCommand(S, id, Head(commandList))

RECURSIVE DispatchLoop(_, _, _)
DispatchLoop(S, id, commandList) ==
    IF commandList = <<>> \/ S.proc # "running" THEN S
    ELSE DispatchLoop(DispatchCommand(S, id, Head(commandList)), id, Tail(commandList))

ParseClientBinary(S, id, buf) ==
    IF Len(buf) = 0 THEN S
    ELSE LET Step2(collected) ==
                 IF collected.hung THEN [S EXCEPT !.proc = "hung"]
                 ELSE DispatchLoop(S, id, collected.commandList)
         IN  Step2(CollectFrames(buf))

\* socket.on('data'); lastActivity and the unread client.buffer are not modelled
OnData(S, id, chunk) ==
    IF id \notin DOMAIN S.clients THEN S ELSE ParseClientBinary(S, id, chunk)

(***************************************************************************)
(* The event loop: one action per handler.                                 *)
(***************************************************************************)
\* the server state at the start of a handler; out restarts empty
St ==
    [rooms |-> rooms, roomPingCounters |-> roomPingCounters, clients |-> clients,
     sockets |-> sockets, timers |-> timers,
     out |-> [id \in DOMAIN sockets |-> <<>>], proc |-> proc]

Commit(S) ==
    /\ rooms' = S.rooms
    /\ roomPingCounters' = S.roomPingCounters
    /\ clients' = S.clients
    /\ sockets' = S.sockets
    /\ timers' = S.timers
    /\ out' = S.out
    /\ proc' = S.proc

Op(kind, id, chunk) == [kind |-> kind, id |-> id, chunk |-> chunk]

NextClientId_same(id) == id

\* nextClientId++
NextClientId(id) == id + 1

\* clientObj of the connection handler
NewClient ==
    [roomId |-> Null, playerSlotIndex |-> NoSlot, battleInitiated |-> FALSE,
     mapSent |-> FALSE, battlePingState |-> NoBattlePingState]

\* congested: the peer does not read and the buffer is at its high-water mark
NewSocket ==
    [destroyed |-> FALSE, closeEmitted |-> FALSE, packetCounter |-> 0,
     congested |-> FALSE, writableNeedDrain |-> FALSE, wroteUndrained |-> FALSE]

\* net.createServer((socket) => ...): the synchronous part
OnConnection(S, id, slotRnd, colorRnd, draws) ==
    LET Added(A, roomId) ==
            IF ~A.ok
            THEN [SocketDestroy(A.S, id) EXCEPT !.clients = MapDelete(@, id)]
            ELSE IF ~A.S.sockets[id].destroyed
            THEN SetTimeout(A.S, "greeting", id, roomId, A.slotIndex, A.hadExistingClients)
            ELSE Disconnect(A.S, id, draws)
        Chosen(G) ==
            Added(AddClientToRoom(
                      [G.S EXCEPT !.clients = MapSet(@, id, NewClient),
                                  !.sockets = MapSet(@, id, NewSocket),
                                  !.out = MapSet(@, id, <<>>)],
                      id, G.roomId, slotRnd, colorRnd),
                  G.roomId)
    IN  Chosen(GetAvailableRoom(S, draws))

\* the callback of the 2000 ms timer of the connection handler; room is the
\* object the closure holds, which is rooms.get(roomId) while the socket lives
GreetingCallback(S, t, draws) ==
    LET id == t.id
        Chat(S4, msg) == SendCommandPacket(S4, id, ROOM_COMMANDS.player_chat, msg)
        MapSent(S3) ==
            IF id \in DOMAIN S3.clients THEN [S3 EXCEPT !.clients[id].mapSent = TRUE] ELSE S3
        Update(S7) ==
            IF t.hadExistingClients THEN BroadcastRoomUpdate(S7, t.roomId, id) ELSE S7
        AfterRoomData(S2) ==
            IF S2.proc # "running" THEN S2
            ELSE Update(
                   Chat(Chat(Chat(MapSent(SendMapPacket(S2, id, S.rooms[t.roomId])),
                                  Str_Welcome),
                             Str_Room \o Decimal(t.roomId)),
                        Str_RandomSlot \o Decimal(t.slotIndex + 1)))
    IN  IF ~S.sockets[id].destroyed /\ t.roomId \in DOMAIN S.rooms
        THEN AfterRoomData(SendRoomData(SendRoomGreeting(S, id, t.slotIndex), id,
                                        S.rooms[t.roomId]))
        ELSE Disconnect(S, id, draws)

\* a connection is accepted while fewer than limit clients have been accepted
AcceptWithin(limit) ==
    /\ proc = "running"
    /\ nextClientId <= limit
    /\ \E slotRnd \in RandomUnit, colorRnd \in RandomUnit, draws \in RaceDraws :
          Commit(OnConnection(St, nextClientId, slotRnd, colorRnd, draws))
    /\ nextClientId' = NextClientId(nextClientId)
    /\ lastOp' = Op("accept", nextClientId, <<>>)
    /\ UNCHANGED <<nData, codec, clock>>

Accept == AcceptWithin(MaxClients)

\* The 2000 ms timers expire in the order in which they were set, which is
\* the order of the client ids.
GreetingTimer ==
    /\ proc = "running"
    /\ \E t \in timers, draws \in RaceDraws :
          /\ t.kind = "greeting"
          /\ \A u \in timers : u.kind = "greeting" => t.id <= u.id
          /\ Commit(GreetingCallback([St EXCEPT !.timers = @ \ {t}], t, draws))
          /\ lastOp' = Op("greeting", t.id, <<>>)
    /\ UNCHANGED <<nextClientId, nData, codec, clock>>

\* the peer closes or resets the connection: the socket is destroyed and its
\* 'close' event is queued
SocketClosed ==
    /\ proc = "running"
    /\ \E id \in DOMAIN sockets :
          /\ ~sockets[id].destroyed
          /\ Commit(SocketDestroy(St, id))
          /\ lastOp' = Op("closed", id, <<>>)
    /\ UNCHANGED <<nextClientId, nData, codec, clock>>

\* socket.on('close')
CloseEvent ==
    /\ proc = "running"
    /\ \E id \in DOMAIN sockets, draws \in RaceDraws :
          /\ sockets[id].destroyed /\ ~sockets[id].closeEmitted
          /\ Commit(Disconnect([St EXCEPT !.sockets[id].closeEmitted = TRUE], id, draws))
          /\ lastOp' = Op("close", id, <<>>)
    /\ UNCHANGED <<nextClientId, nData, codec, clock>>

BattlePingTimeout ==
    /\ proc = "running"
    /\ \E t \in timers :
          /\ t.kind = "pingTimeout"
          /\ t.id \in DOMAIN clients => clients[t.id].battlePingState.counter < MaxPing
          /\ Commit(BattlePingTimeoutCallback([St EXCEPT !.timers = @ \ {t}], t.id))
          /\ lastOp' = Op("pingTimeout", t.id, <<>>)
    /\ UNCHANGED <<nextClientId, nData, codec, clock>>

NextPingTimer ==
    /\ proc = "running"
    /\ \E t \in timers :
          /\ t.kind = "nextPing"
          /\ Commit(NextPingCallback([St EXCEPT !.timers = @ \ {t}], t.id))
          /\ lastOp' = Op("nextPing", t.id, <<>>)
    /\ UNCHANGED <<nextClientId, nData, codec, clock>>

\* JSON.stringify({ type: 'disconnect', reason: 'idle' }) + '\n'
Str_IdleNotice ==
    <<123, 34, 116, 121, 112, 101, 34, 58, 34, 100, 105, 115, 99, 111,
      110, 110, 101, 99, 116, 34, 44, 34, 114, 101, 97, 115, 111, 110,
      34, 58, 34, 105, 100, 108, 101, 34, 125, 10>>

\* send(socket, obj): the line is written as it is, without a frame
Send(S, sid, line) == IF S.sockets[sid].destroyed THEN S ELSE SafeWrite(S, sid, line)

\* the loop of the idle reaper over the clients, in the order of the Map; idle
\* are the clients whose lastActivity is more than IDLE_TIMEOUT_MS back
RECURSIVE IdleReaperLoop(_, _, _, _)
IdleReaperLoop(S, ids, idle, draws) ==
    IF ids = <<>> \/ S.proc # "running" THEN S
    ELSE IdleReaperLoop(
             IF Head(ids) \in idle /\ Head(ids) \in DOMAIN S.clients
             THEN Disconnect(Send(S, Head(ids), Str_IdleNotice), Head(ids), draws)
             ELSE S,
             Tail(ids), idle, draws)

\* the callback of setInterval(..., 10_000)
IdleReaperCallback(S, idle, draws) ==
    IdleReaperLoop(S, SortedSeq(DOMAIN S.clients), idle, draws)

ClientMapSent_any(S, clientId) == TRUE

\* client.mapSent
ClientMapSent(S, clientId) == S.clients[clientId].mapSent

LobbyPingSkips_never(room) == FALSE

\* if (room.inBattle) continue
LobbyPingSkips(room) == room.inBattle

\* the inner loop of the lobby ping: the clients of one room
RECURSIVE LobbyPingClients(_, _)
LobbyPingClients(S, ids) ==
    IF ids = <<>> THEN S
    ELSE LobbyPingClients(
             IF Head(ids) \notin DOMAIN S.clients \/ S.sockets[Head(ids)].destroyed THEN S
             ELSE IF ~ClientMapSent(S, Head(ids)) THEN S
             ELSE SendCommandPacket(S, Head(ids), ROOM_COMMANDS.ping, <<>>),
             Tail(ids))

\* the outer loop of the lobby ping: the rooms
RECURSIVE LobbyPingRooms(_, _)
LobbyPingRooms(S, roomIds) ==
    IF roomIds = <<>> THEN S
    ELSE LobbyPingRooms(
             IF Len(S.rooms[Head(roomIds)].clients) = 0 THEN S
             ELSE IF LobbyPingSkips(S.rooms[Head(roomIds)]) THEN S
             ELSE LobbyPingClients(
                      [S EXCEPT !.roomPingCounters[Head(roomIds)] = @ + 1],
                      S.rooms[Head(roomIds)].clients),
             Tail(roomIds))

\* the callback of setInterval(..., 300)
LobbyPingCallback(S) == LobbyPingRooms(S, SortedSeq(DOMAIN S.rooms))

\* A tick of the idle reaper at which the clients of idle have been silent for
\* more than IDLE_TIMEOUT_MS; a tick that finds nobody idle changes nothing.
\* lastOp records the idle clients in place of a chunk.
IdleReaper ==
    /\ proc = "running"
    /\ \E idle \in (SUBSET DOMAIN clients) \ {{}}, draws \in RaceDraws :
          /\ Commit(IdleReaperCallback(St, idle, draws))
          /\ lastOp' = Op("reaper", Null, SortedSeq(idle))
    /\ UNCHANGED <<nextClientId, nData, codec, clock>>

\* the rooms a lobby ping tick sends to
PingedRooms(S) ==
    {r \in DOMAIN S.rooms : Len(S.rooms[r].clients) > 0 /\ ~S.rooms[r].inBattle}

\* A tick of the lobby ping while no room to ping has been pinged limit times;
\* a tick that finds no room to ping changes nothing.
LobbyPingWithin(limit) ==
    /\ proc = "running"
    /\ PingedRooms(St) # {}
    /\ \A r \in PingedRooms(St) : roomPingCounters[r] < limit
    /\ Commit(LobbyPingCallback(St))
    /\ lastOp' = Op("lobbyPing", Null, <<>>)
    /\ UNCHANGED <<nextClientId, nData, codec, clock>>

LobbyPing == LobbyPingWithin(MaxLobbyPings)

(***************************************************************************)
(* What clients send.  A client frames a payload the way the server does;  *)
(* the counter nibble of inbound frames is not looked at.                  *)
(***************************************************************************)
ClientFrame(payload) ==
    <<TotalLen(payload) % 256, (TotalLen(payload) \div 256) % 16>> \o payload \o <<0>>

Frame_player_color(color, ordinal) == ClientFrame(<<107, color, ordinal>>)

Frame_player_name(ordinal, name) == ClientFrame(<<103, ordinal, 0>> \o name)

Frame_player_ready == ClientFrame(<<104>>)

Frame_begin_battle == ClientFrame(<<118, 6, 0, 2>>)

\* the echo of a battle_ping1: the opcode and the two 32-bit counters
Frame_battle_ping1 == ClientFrame(<<2>> \o UInt32LE(0) \o UInt32LE(0))

\* The chunks a 'data' event delivers from the client in slot s: a frame, a
\* ping echo, two frames back to back, a frame cut in two, a player_name for
\* a slot that does not exist, and headers announcing fewer than 3 bytes.
ClientChunks(s) ==
    {Frame_player_color(0, s), Frame_begin_battle, Frame_battle_ping1,
     Frame_player_ready \o Frame_begin_battle,
     Frame_player_name(8, <<65>>),
     Slice(Frame_player_color(0, s), 0, 3), Slice(Frame_player_color(0, s), 3, 6),
     <<0, 0>>, <<1, 0>>, <<2, 0, 2, 0>>}

\* socket.on('data') with a chunk of Chunks[s], s the sender's slot, while fewer
\* than limit chunks
\* have been delivered
DataFrom(Chunks, limit) ==
    /\ proc = "running"
    /\ nData < limit
    /\ \E id \in DOMAIN clients :
          /\ ~sockets[id].destroyed
          /\ \E chunk \in Chunks[clients[id].playerSlotIndex] :
                /\ Commit(OnData(St, id, chunk))
                /\ lastOp' = Op("data", id, chunk)
    /\ nData' = nData + 1
    /\ UNCHANGED <<nextClientId, codec, clock>>

Data == DataFrom([s \in NoSlot..7 |-> ClientChunks(s)], MaxData)

(***************************************************************************)
(* Specification of the server.                                            *)
(***************************************************************************)
CodecIdle == [phase |-> "idle", counter |-> 0, payload |-> <<>>, packet |-> <<>>,
              commandList |-> <<>>]

\* the clock of the specifications in which time is not observed
ClockIdle == [now |-> 0, nextReap |-> 0, lastActivity |-> <<>>]

\* server.listen callback: createRoom()
InitServer ==
    /\ nextClientId = 1
    /\ \E draws \in RaceDraws :
          LET S == CreateRoom([rooms |-> <<>>, roomPingCounters |-> <<>>], draws)
          IN  rooms = S.rooms /\ roomPingCounters = S.roomPingCounters
    /\ clients = <<>>
    /\ sockets = <<>>
    /\ timers = {}
    /\ out = <<>>
    /\ proc = "running"
    /\ lastOp = Op("listen", Null, <<>>)
    /\ nData = 0

Init == InitServer /\ codec = CodecIdle /\ clock = ClockIdle

Next ==
    \/ Accept
    \/ GreetingTimer
    \/ Data
    \/ SocketClosed
    \/ CloseEvent
    \/ BattlePingTimeout
    \/ NextPingTimer

Spec == Init /\ [][Next]_vars

(***************************************************************************)
(* Specification of the room manager: more connections than in Spec, and   *)
(* begin_battle the only command the clients send, so that rooms are       *)
(* created, closed to newcomers, emptied and deleted.                      *)
(***************************************************************************)
MaxRoomClients == 4

MaxRoomData == 1

\* clients that have begun a battle of their own when the behaviour starts
RoomVeterans == 3

RoomChunks(s) == {Frame_begin_battle, Frame_battle_ping1}

\* the server after the listen callback
ServerStart(draws) ==
    LET S == CreateRoom([rooms |-> <<>>, roomPingCounters |-> <<>>], draws)
    IN  [rooms |-> S.rooms, roomPingCounters |-> S.roomPingCounters, clients |-> <<>>,
         sockets |-> <<>>, timers |-> {}, out |-> <<>>, proc |-> "running"]

\* what a handler finds: nothing written yet
Quiet(S) == [S EXCEPT !.out = [id \in DOMAIN S.sockets |-> <<>>]]

\* client id connects, is greeted and sends begin_battle
Veteran(S, id, draws) ==
    LET zero == [num |-> 0, den |-> 8]
        Greeted(S1) ==
            LET t == CHOOSE x \in S1.timers : x.kind = "greeting" /\ x.id = id
            IN  OnData(Quiet(GreetingCallback([Quiet(S1) EXCEPT !.timers = @ \ {t}], t, draws)),
                       id, Frame_begin_battle)
    IN  Greeted(OnConnection(Quiet(S), id, zero, zero, draws))

RECURSIVE Veterans(_, _, _)
Veterans(S, n, draws) ==
    IF n = 0 THEN S ELSE Veteran(Veterans(S, n - 1, draws), n, draws)

\* each of the first RoomVeterans clients is alone in a room in battle
InitRooms ==
    /\ \E draws \in RaceDraws :
          \E S \in {Veterans(ServerStart(draws), RoomVeterans, draws)} :
              /\ rooms = S.rooms
              /\ roomPingCounters = S.roomPingCounters
              /\ clients = S.clients
              /\ sockets = S.sockets
              /\ timers = S.timers
              /\ out = S.out
              /\ proc = S.proc
    /\ nextClientId = RoomVeterans + 1
    /\ lastOp = Op("data", RoomVeterans, Frame_begin_battle)
    /\ nData = 0
    /\ codec = CodecIdle
    /\ clock = ClockIdle

AcceptRooms == AcceptWithin(MaxRoomClients)

DataRooms == DataFrom([s \in NoSlot..7 |-> RoomChunks(s)], MaxRoomData)

NextRooms ==
    \/ AcceptRooms
    \/ GreetingTimer
    \/ DataRooms
    \/ SocketClosed
    \/ CloseEvent
    \/ BattlePingTimeout
    \/ NextPingTimer

SpecRooms == InitRooms /\ [][NextRooms]_vars

(***************************************************************************)
(* Specification of the lobby commands and the relayed commands: client 1  *)
(* is alone in room 1, in battle, client 2 has been greeted in room 2 and   *)
(* client 3 has just joined it; they send commands, close, or have a timer *)
(* fire.                                                                   *)
(***************************************************************************)
\* 'data' events handled in one behaviour of SpecLobby
MaxLobbyData == 2
\* clients in room 2 when the behaviour starts: the last one is still in its
\* greeting delay, the others have been greeted
LobbyMembers == 2

Frame_player_chat(msg) == ClientFrame(<<101>> \o msg \o <<0>>)

Frame_player_race(race, ordinal) == ClientFrame(<<102, race, ordinal>>)

Frame_player_team(team, ordinal) == ClientFrame(<<109, team, ordinal>>)

Frame_unit_move == ClientFrame(<<25, 5, 0>>)

Frame_button_unit == ClientFrame(<<10, 1>>)

Frame_battle_chat == ClientFrame(<<14, 6, 255, 104, 105, 0>>)

Frame_game_speed == ClientFrame(<<19, 60, 0, 0, 0>>)

\* the six lobby commands, for the sender's own slot s
LobbyCommandChunks(s) ==
    {Frame_player_ready, Frame_player_name(s, <<70, 111, 111, 0>>),
     Frame_player_chat(<<104, 105>>), Frame_player_race(1, s),
     Frame_player_color(3, s), Frame_player_team(2, s)}

\* relayed commands
RelayChunks == {Frame_unit_move, Frame_button_unit, Frame_battle_chat, Frame_game_speed}

LobbyChunks(s) == LobbyCommandChunks(s) \cup RelayChunks \cup {Frame_battle_ping1}

\* client id connects and is greeted
Lobbyist(S, id, draws) ==
    LET zero == [num |-> 0, den |-> 8]
        Greeted(S1) ==
            LET t == CHOOSE x \in S1.timers : x.kind = "greeting" /\ x.id = id
            IN  Quiet(GreetingCallback([Quiet(S1) EXCEPT !.timers = @ \ {t}], t, draws))
    IN  Greeted(OnConnection(Quiet(S), id, zero, zero, draws))

RECURSIVE Lobbyists(_, _, _, _)
Lobbyists(S, first, n, draws) ==
    LET Join(T) == IF T.proc = "running" THEN Lobbyist(T, first + n - 1, draws) ELSE T
    IN  IF n = 0 THEN S ELSE Join(Lobbyists(S, first, n - 1, draws))

\* client id connects
Newcomer(S, id, draws) ==
    OnConnection(Quiet(S), id, [num |-> 0, den |-> 8], [num |-> 0, den |-> 8], draws)

InitLobby ==
    /\ \E draws \in RaceDraws :
          \E S \in {Newcomer(Lobbyists(Veterans(ServerStart(draws), 1, draws),
                                       2, LobbyMembers - 1, draws),
                             LobbyMembers + 1, draws)} :
              /\ rooms = S.rooms
              /\ roomPingCounters = S.roomPingCounters
              /\ clients = S.clients
              /\ sockets = S.sockets
              /\ timers = S.timers
              /\ out = S.out
              /\ proc = S.proc
    /\ nextClientId = LobbyMembers + 2
    /\ lastOp = Op("accept", LobbyMembers + 1, <<>>)
    /\ nData = 0
    /\ codec = CodecIdle
    /\ clock = ClockIdle

DataLobby == DataFrom([s \in NoSlot..7 |-> LobbyChunks(s)], MaxLobbyData)

NextLobby ==
    \/ GreetingTimer
    \/ DataLobby
    \/ SocketClosed
    \/ CloseEvent
    \/ BattlePingTimeout
    \/ NextPingTimer

SpecLobby == InitLobby /\ [][NextLobby]_vars

(***************************************************************************)
(* Specification of the interval timers: the server of Spec with the idle  *)
(* reaper and the lobby ping, and clients that send begin_battle and ping  *)
(* echoes only.                                                            *)
(***************************************************************************)
\* 'data' events handled in one behaviour of SpecTimers
MaxTimerData == 2

TimerChunks(s) == {Frame_begin_battle, Frame_battle_ping1}

DataTimers == DataFrom([s \in NoSlot..7 |-> TimerChunks(s)], MaxTimerData)

NextTimers ==
    \/ Accept
    \/ GreetingTimer
    \/ DataTimers
    \/ SocketClosed
    \/ CloseEvent
    \/ BattlePingTimeout
    \/ NextPingTimer
    \/ IdleReaper
    \/ LobbyPing

SpecTimers == Init /\ [][NextTimers]_vars

(***************************************************************************)
(* Specification of the server with time: the idle reaper ticks every      *)
(* REAP_INTERVAL_MS and reads client.lastActivity against Date.now().      *)
(* The other timers fire at any time after they were set.                  *)
(***************************************************************************)
IDLE_TIMEOUT_MS == 5000

REAP_INTERVAL_MS == 10000

\* the resolution at which time is observed
ClockStep == IDLE_TIMEOUT_MS \div 2

MaxIdleClients == 2

MaxIdleData == 1

MaxNow == 20000

\* begin_battle, and a frame whose length field is 0
IdleChunks(s) == {Frame_begin_battle, <<0, 0>>}

\* const idleFor = now - client.lastActivity; if (idleFor > IDLE_TIMEOUT_MS)
IdleFor(id) == clock.now - clock.lastActivity[id]

IdleClients == {id \in DOMAIN clients : IdleFor(id) > IDLE_TIMEOUT_MS}

\* setInterval is called when the module is loaded, at time 0
InitIdle ==
    /\ InitServer
    /\ codec = CodecIdle
    /\ clock = [now |-> 0, nextReap |-> REAP_INTERVAL_MS, lastActivity |-> <<>>]

\* the connection handler: lastActivity: Date.now()
AcceptIdle ==
    /\ proc = "running"
    /\ nextClientId <= MaxIdleClients
    /\ \E slotRnd \in RandomUnit, colorRnd \in RandomUnit, draws \in RaceDraws :
          Commit(OnConnection(St, nextClientId, slotRnd, colorRnd, draws))
    /\ nextClientId' = NextClientId(nextClientId)
    /\ lastOp' = Op("accept", nextClientId, <<>>)
    /\ clock' = [clock EXCEPT !.lastActivity = MapSet(@, nextClientId, clock.now)]
    /\ UNCHANGED <<nData, codec>>

\* socket.on('data'): client.lastActivity = Date.now()
DataIdle ==
    /\ proc = "running"
    /\ nData < MaxIdleData
    /\ \E id \in DOMAIN clients :
          /\ ~sockets[id].destroyed
          /\ \E chunk \in IdleChunks(clients[id].playerSlotIndex) :
                /\ Commit(OnData(St, id, chunk))
                /\ lastOp' = Op("data", id, chunk)
          /\ clock' = [clock EXCEPT !.lastActivity = MapSet(@, id, clock.now)]
    /\ nData' = nData + 1
    /\ UNCHANGED <<nextClientId, codec>>

\* The tick of the idle reaper, due every REAP_INTERVAL_MS.
ReaperIdle ==
    /\ proc = "running"
    /\ clock.now = clock.nextReap
    /\ \E draws \in RaceDraws :
          Commit(IdleReaperCallback(St, IdleClients, draws))
    /\ lastOp' = Op("reaper", Null, SortedSeq(IdleClients))
    /\ clock' = [clock EXCEPT !.nextReap = @ + REAP_INTERVAL_MS]
    /\ UNCHANGED <<nextClientId, nData, codec>>

\* Time passes.  While the event loop runs, the reaper's tick is not overdue;
\* a handler that never returns (proc = "hung") keeps every timer from firing.
Tick ==
    /\ proc # "crashed"
    /\ clock.now + ClockStep <= MaxNow
    /\ proc = "running" => clock.now < clock.nextReap
    /\ clock' = [clock EXCEPT !.now = @ + ClockStep]
    /\ UNCHANGED <<nextClientId, clients, rooms, roomPingCounters, sockets, timers,
                   out, proc, lastOp, nData, codec>>

\* The collection loop that never returns pushes a buffer per iteration: the
\* process may end when the heap is exhausted.
HeapExhausted ==
    /\ proc = "hung"
    /\ proc' = "crashed"
    /\ UNCHANGED <<nextClientId, clients, rooms, roomPingCounters, sockets, timers,
                   out, lastOp, nData, codec, clock>>

NextIdle ==
    \/ AcceptIdle
    \/ GreetingTimer
    \/ DataIdle
    \/ SocketClosed
    \/ CloseEvent
    \/ BattlePingTimeout
    \/ ReaperIdle
    \/ Tick
    \/ HeapExhausted

SpecIdle == InitIdle /\ [][NextIdle]_vars

(***************************************************************************)
(* Specification of the battle-ping driver: PingMembers clients have been  *)
(* greeted in room 1; they send begin_battle and echoes, alone and in one  *)
(* chunk, and the timers of the driver fire.                               *)
(***************************************************************************)
PingMembers == 2

MaxPingData == 4

MaxPingSeq == 2

PingChunks(s) ==
    {Frame_begin_battle, Frame_battle_ping1, Frame_battle_ping1 \o Frame_begin_battle}

InitPing ==
    /\ \E draws \in RaceDraws :
          \E S \in {Lobbyists(ServerStart(draws), 1, PingMembers, draws)} :
              /\ rooms = S.rooms
              /\ roomPingCounters = S.roomPingCounters
              /\ clients = S.clients
              /\ sockets = S.sockets
              /\ timers = S.timers
              /\ out = S.out
              /\ proc = S.proc
    /\ nextClientId = PingMembers + 1
    /\ lastOp = Op("greeting", PingMembers, <<>>)
    /\ nData = 0
    /\ codec = CodecIdle
    /\ clock = ClockIdle

DataPing == DataFrom([s \in NoSlot..7 |-> PingChunks(s)], MaxPingData)

\* the BATTLE_PING_TIMEOUT_MS timer of a client whose sequence number is below limit
BattlePingTimeoutWithin(limit) ==
    /\ proc = "running"
    /\ \E t \in timers :
          /\ t.kind = "pingTimeout"
          /\ t.id \in DOMAIN clients => clients[t.id].battlePingState.counter < limit
          /\ Commit(BattlePingTimeoutCallback([St EXCEPT !.timers = @ \ {t}], t.id))
          /\ lastOp' = Op("pingTimeout", t.id, <<>>)
    /\ UNCHANGED <<nextClientId, nData, codec, clock>>

BattlePingTimeoutPing == BattlePingTimeoutWithin(MaxPingSeq)

NextPing ==
    \/ DataPing
    \/ SocketClosed
    \/ CloseEvent
    \/ BattlePingTimeoutPing
    \/ NextPingTimer

SpecPing == InitPing /\ [][NextPing]_vars

(***************************************************************************)
(* Specification of the battle-ping stream of StreamMembers clients, with  *)
(* timers that fire once they are set.                                     *)
(***************************************************************************)
StreamMembers == 1

MaxStreamData == 3

InitStream ==
    /\ \E draws \in RaceDraws :
          \E S \in {Lobbyists(ServerStart(draws), 1, StreamMembers, draws)} :
              /\ rooms = S.rooms
              /\ roomPingCounters = S.roomPingCounters
              /\ clients = S.clients
              /\ sockets = S.sockets
              /\ timers = S.timers
              /\ out = S.out
              /\ proc = S.proc
    /\ nextClientId = StreamMembers + 1
    /\ lastOp = Op("greeting", StreamMembers, <<>>)
    /\ nData = 0
    /\ codec = CodecIdle
    /\ clock = ClockIdle

DataStream == DataFrom([s \in NoSlot..7 |-> PingChunks(s)], MaxStreamData)

NextStream ==
    \/ DataStream
    \/ SocketClosed
    \/ CloseEvent
    \/ BattlePingTimeoutPing
    \/ NextPingTimer

SpecStream == InitStream /\ [][NextStream]_vars

\* A timer that was set fires: setTimeout callbacks run once their delay has
\* passed, whatever else the event loop does.
FairStream == SpecStream /\ WF_vars(BattlePingTimeoutPing) /\ WF_vars(NextPingTimer)

(***************************************************************************)
(* Specification of a full room: FullMembers clients have been greeted in  *)
(* room 1, more connect, clients leave and send begin_battle.              *)
(***************************************************************************)
FullMembers == 7

MaxFullClients == 8

MaxFullData == 1

MaxFullCloses == 2

FullChunks(s) == {Frame_begin_battle}

InitFull ==
    /\ \E draws \in RaceDraws :
          \E S \in {Lobbyists(ServerStart(draws), 1, FullMembers, draws)} :
              /\ rooms = S.rooms
              /\ roomPingCounters = S.roomPingCounters
              /\ clients = S.clients
              /\ sockets = S.sockets
              /\ timers = S.timers
              /\ out = S.out
              /\ proc = S.proc
    /\ nextClientId = FullMembers + 1
    /\ lastOp = Op("greeting", FullMembers, <<>>)
    /\ nData = 0
    /\ codec = CodecIdle
    /\ clock = ClockIdle

AcceptFull == AcceptWithin(MaxFullClients)

DataFull == DataFrom([s \in NoSlot..7 |-> FullChunks(s)], MaxFullData)

\* a peer closes its connection while fewer than MaxFullCloses have done so
SocketClosedFull ==
    /\ Cardinality({id \in DOMAIN sockets : sockets[id].destroyed}) < MaxFullCloses
    /\ SocketClosed

NextFull ==
    \/ AcceptFull
    \/ GreetingTimer
    \/ DataFull
    \/ SocketClosedFull
    \/ CloseEvent

SpecFull == InitFull /\ [][NextFull]_vars

(***************************************************************************)
(* Specification of the command parser: ParseMembers clients have been     *)
(* greeted in room 1 and send chunks of one or several frames, with        *)
(* opcodes in and out of ROOM_COMMANDS and data that ends in 0x00 or not.   *)
(***************************************************************************)
ParseMembers == 2

MaxParseData == 2

\* a frame whose opcode no entry of ROOM_COMMANDS starts with
Frame_unknown == ClientFrame(<<127, 1>>)

\* frames with the opcodes 0x16 and 0x17, between unit_destination and unit_attack
Frame_opcode16 == ClientFrame(<<22, 1, 2>>)

Frame_opcode17 == ClientFrame(<<23, 1, 2>>)

Frame_unit_attack(data) == ClientFrame(<<24>> \o data)

Frame_unit_move_with(data) == ClientFrame(<<25>> \o data)

ParseChunks(s) ==
    {Frame_unknown,
     Frame_unknown \o Frame_player_color(3, s) \o Frame_button_unit,
     Frame_player_color(3, s) \o Frame_unknown \o Frame_player_team(2, s),
     Frame_player_team(2, s) \o Frame_player_color(3, s) \o Frame_battle_chat,
     Frame_unit_attack(<<5, 0>>), Frame_unit_attack(<<>>), Frame_game_speed,
     Frame_unit_move_with(<<5, 0>>), Frame_unit_move_with(<<5>>),
     Frame_unit_move_with(<<0, 0>>), Frame_unit_move_with(<<>>),
     Frame_opcode16, Frame_opcode17}

InitParse ==
    /\ \E draws \in RaceDraws :
          \E S \in {Lobbyists(ServerStart(draws), 1, ParseMembers, draws)} :
              /\ rooms = S.rooms
              /\ roomPingCounters = S.roomPingCounters
              /\ clients = S.clients
              /\ sockets = S.sockets
              /\ timers = S.timers
              /\ out = S.out
              /\ proc = S.proc
    /\ nextClientId = ParseMembers + 1
    /\ lastOp = Op("greeting", ParseMembers, <<>>)
    /\ nData = 0
    /\ codec = CodecIdle
    /\ clock = ClockIdle

DataParse == DataFrom([s \in NoSlot..7 |-> ParseChunks(s)], MaxParseData)

NextParse ==
    \/ DataParse
    \/ SocketClosed
    \/ CloseEvent

SpecParse == InitParse /\ [][NextParse]_vars

(***************************************************************************)
(* Specification of the slot fields: FieldMembers clients have been        *)
(* greeted in room 1 and send player_team and player_color with values in  *)
(* and out of 0..7, while more clients connect and are greeted.            *)
(***************************************************************************)
FieldMembers == 1

MaxFieldClients == 2

MaxFieldData == 2

FieldChunks(s) ==
    {Frame_player_team(7, s), Frame_player_team(8, s),
     Frame_player_color(7, s), Frame_player_color(9, s)}

InitFields ==
    /\ \E draws \in RaceDraws :
          \E S \in {Lobbyists(ServerStart(draws), 1, FieldMembers, draws)} :
              /\ rooms = S.rooms
              /\ roomPingCounters = S.roomPingCounters
              /\ clients = S.clients
              /\ sockets = S.sockets
              /\ timers = S.timers
              /\ out = S.out
              /\ proc = S.proc
    /\ nextClientId = FieldMembers + 1
    /\ lastOp = Op("greeting", FieldMembers, <<>>)
    /\ nData = 0
    /\ codec = CodecIdle
    /\ clock = ClockIdle

AcceptFields == AcceptWithin(MaxFieldClients)

DataFields == DataFrom([s \in NoSlot..7 |-> FieldChunks(s)], MaxFieldData)

NextFields ==
    \/ AcceptFields
    \/ GreetingTimer
    \/ DataFields
    \/ SocketClosed
    \/ CloseEvent

SpecFields == InitFields /\ [][NextFields]_vars

(***************************************************************************)
(* Specification of the frame codec: sendCommandPacket on two connections, *)
(* each packet written fed to the collection loop of parseClientBinary.    *)
(***************************************************************************)
\* packets sent on one connection in one behaviour
MaxSends == 17

\* payload lengths: the shortest, the first to need the high length bits, the
\* longest that fits and the first that does not
CodecLens == {1, 253, 4092, 4093}

\* a command byte and data bytes, some of them 0x00
CodecData(n) == [i \in 1..(n - 1) |-> (i * 7) % 256]

CodecConns == {1, 2}

InitCodec ==
    /\ InitServer
    /\ clock = ClockIdle
    /\ codec = [phase |-> "start",
                sockets |-> [sid \in CodecConns |-> NewSocket],
                count |-> [sid \in CodecConns |-> 0],
                sid |-> Null, counter |-> 0, payload |-> <<>>, packet |-> <<>>,
                commandList |-> <<>>]

\* one sendCommandPacket(socket, command, data) and the decoding of what it wrote
CodecSend ==
    \E sid \in CodecConns, n \in CodecLens :
        /\ codec.count[sid] < MaxSends
        /\ LET command == ROOM_COMMANDS.room_map
               S0 == [sockets |-> codec.sockets, out |-> [c \in CodecConns |-> <<>>]]
               Sent(S1, payload) ==
                   LET written == Len(S1.out[sid]) > 0
                       packet  == IF written THEN S1.out[sid][1] ELSE <<>>
                   IN  codec' = [phase |-> IF written THEN "written" ELSE "dropped",
                                 sockets |-> S1.sockets,
                                 count |-> [codec.count EXCEPT
                                              ![sid] = IF written THEN @ + 1 ELSE @],
                                 sid |-> sid,
                                 counter |-> CounterNibble(codec.sockets[sid].packetCounter),
                                 payload |-> payload,
                                 packet |-> packet,
                                 commandList |-> CollectFrames(packet).commandList]
           IN  Sent(SendCommandPacket(S0, sid, command, CodecData(n)),
                    command \o CodecData(n))
        /\ UNCHANGED <<nextClientId, clients, rooms, roomPingCounters, sockets, timers,
                       out, proc, lastOp, nData, clock>>

NextCodec == CodecSend

SpecCodec == InitCodec /\ [][NextCodec]_vars

(***************************************************************************)
(* Properties.                                                             *)
(***************************************************************************)
RoomIds == DOMAIN rooms

SlotIndexes == 0..7

\* the (room, slot) pairs that name client id
SlotsOf(id) ==
    {p \in RoomIds \X SlotIndexes : rooms[p[1]].playerSlots[p[2]].clientId = id}

\* the rooms whose client list holds id, counted with multiplicity
Memberships(id) ==
    {p \in RoomIds \X (1..8) :
        p[2] <= Len(rooms[p[1]].clients) /\ rooms[p[1]].clients[p[2]] = id}

ClientIds == 1..(MaxClients + 1)

\* C1: after any sequence of accepts, inbound commands and disconnects every
\* client id is named by at most one (room, slot) pair and is a member of at
\* most one room, once; a slot holds one client id or none.
C1_SlotUniqueness ==
    \A id \in ClientIds :
        /\ Cardinality(SlotsOf(id)) <= 1
        /\ Cardinality(Memberships(id)) <= 1
        /\ id \in DOMAIN clients /\ clients[id].roomId # Null
              => SlotsOf(id) \subseteq {<<clients[id].roomId, clients[id].playerSlotIndex>>}

\* two clients share a room, each in a slot of its own, after an inbound command
C1_Witness ==
    /\ lastOp.kind = "data"
    /\ \E r \in RoomIds : Len(rooms[r].clients) = 2
    /\ \A id \in DOMAIN clients : Cardinality(SlotsOf(id)) = 1

ActiveTypes == {"gamer", "ai_easy", "ai_hard"}

\* C2: in every reachable state no two slots of a room whose type is gamer,
\* ai_easy or ai_hard have the same color.
C2_ColorUniqueness ==
    \A r \in RoomIds : \A i \in SlotIndexes, j \in SlotIndexes :
        /\ i # j
        /\ rooms[r].playerSlots[i].type \in ActiveTypes
        /\ rooms[r].playerSlots[j].type \in ActiveTypes
        => rooms[r].playerSlots[i].color # rooms[r].playerSlots[j].color

RECURSIVE SeqToSet(_)
SeqToSet(q) == IF q = <<>> THEN {} ELSE {Head(q)} \cup SeqToSet(Tail(q))

\* C3: a step never adds a client to a room that is inBattle: the client set
\* of such a room after the step is within the one before it.
C3_NoJoinInBattle ==
    [][\A r \in RoomIds :
          rooms[r].inBattle /\ r \in DOMAIN rooms'
            => SeqToSet(rooms'[r].clients) \subseteq SeqToSet(rooms[r].clients)]_vars

\* a connection was accepted while room 1 was in battle with slots to spare,
\* and went to another room
C3_Witness ==
    /\ lastOp.kind = "accept"
    /\ rooms[1].inBattle
    /\ Len(FreeSlots(rooms[1])) > 0
    /\ lastOp.id \in DOMAIN clients
    /\ clients[lastOp.id].roomId # 1

\* the names of the commands the dispatcher finds in a chunk
DispatchedNames(chunk) ==
    LET Names(collected) ==
            IF collected.hung THEN {}
            ELSE {ROOM_COMMAND_NAMES[MatchCommand(collected.commandList[i])] :
                     i \in {j \in 1..Len(collected.commandList) :
                               MatchCommand(collected.commandList[j]) # 0}}
    IN  Names(CollectFrames(chunk))

AllInitiated(rs, cs, r) ==
    /\ rs[r].clients # <<>>
    /\ \A c \in SeqToSet(rs[r].clients) : c \in DOMAIN cs /\ cs[c].battleInitiated

\* C4: a room's inBattle flag goes from false to true only in a step that
\* dispatches begin_battle from a client of the room and leaves every client
\* of the room with battleInitiated set, and every such step leaves the flag
\* true.
C4_InBattleAtBeginBattle ==
    [][\A r \in DOMAIN rooms' :
          LET dispatched == /\ nData' # nData
                            /\ "begin_battle" \in DispatchedNames(lastOp'.chunk)
                            /\ lastOp'.id \in DOMAIN clients'
                            /\ clients'[lastOp'.id].roomId = r
              wasFalse   == r \in RoomIds => ~rooms[r].inBattle
          IN  /\ wasFalse /\ rooms'[r].inBattle
                    => dispatched /\ AllInitiated(rooms', clients', r)
              /\ dispatched /\ AllInitiated(rooms', clients', r)
                    => rooms'[r].inBattle]_vars

\* the second of two clients of a room sent begin_battle and the room is in battle
C4_Witness ==
    /\ lastOp.kind = "data"
    /\ "begin_battle" \in DispatchedNames(lastOp.chunk)
    /\ \E r \in RoomIds :
          /\ rooms[r].inBattle
          /\ Len(rooms[r].clients) = 2
          /\ AllInitiated(rooms, clients, r)

\* C5: on each connection the k-th packet written (k = 0, 1, ...) carries
\* k mod 16 in the high nibble of its second byte, whatever the other
\* connection has sent; a packet that is not written does not count.
C5_CounterNibble ==
    codec.phase = "written"
        => codec.packet[2] \div 16 = (codec.count[codec.sid] - 1) % 16

\* the 17th packet of one connection (nibble 0 again) while the other has sent 3
C5_Witness ==
    /\ codec.phase = "written"
    /\ codec.sid = 1
    /\ codec.count[1] = 17
    /\ codec.count[2] = 3

\* the three header and trailer bytes of the packet of payload P, counter nibble c
HeaderOf(packet, P, c) ==
    /\ packet[1] = (Len(P) + 3) % 256
    /\ packet[2] = c * 16 + ((Len(P) + 3) \div 256)
    /\ packet[Len(packet)] = 0

CompleteFrames(s) ==
    {Frame_player_color(0, s), Frame_begin_battle,
     Frame_player_name(s, <<65, 66, 67, 68, 69, 70, 71, 72>>)}

\* C7: a complete frame delivered in two consecutive chunks, cut anywhere,
\* leaves the server in the state, and with the packets written, of the same
\* frame delivered in one chunk.
C7_SplitFrame ==
    \A id \in DOMAIN clients :
        proc = "running" /\ ~sockets[id].destroyed
        => \A F \in CompleteFrames(clients[id].playerSlotIndex) :
              \A k \in 1..(Len(F) - 1) :
                 OnData(OnData(St, id, Slice(F, 0, k)), id, Slice(F, k, Len(F)))
                     = OnData(St, id, F)

\* C8: handling a chunk from a connected client never raises an error.
C8_NoErrorOnData ==
    lastOp.kind = "data" => proc # "crashed"

\* C9: the frame-collection loop ends for every chunk.
C9_CollectionTerminates ==
    lastOp.kind = "data" => proc # "hung"

\* a room a newcomer may be put in
Joinable(room) ==
    /\ ~room.inBattle
    /\ \E i \in SlotIndexes :
          room.playerSlots[i].clientId = Null /\ room.playerSlots[i].type = "none"

C11_RoomsPersistOrHoldClients ==
    /\ 1 \in RoomIds
    /\ \A r \in RoomIds : r > 1 => Len(rooms[r].clients) > 0

\* after a 'close': room 1 is empty and still there, room 2 is gone, and
\* room 3, created while rooms 1 and 2 existed, still has its client
C11_Witness ==
    /\ lastOp.kind = "close"
    /\ RoomIds = {1, 3}
    /\ Len(rooms[1].clients) = 0
    /\ Len(rooms[3].clients) > 0

\* the payload of a packet: the bytes between the header and the terminator
PayloadOf(packet) == SubSeq(packet, 3, Len(packet) - 1)

\* the step runs disconnect(id) for a client of the clients table: its 'close'
\* event, or a reaper tick that finds it idle
Disconnects(id) ==
    /\ id \in DOMAIN clients
    /\ \/ lastOp'.kind = "close" /\ lastOp'.id = id
       \/ lastOp'.kind = "reaper" /\ id \in SeqToSet(lastOp'.chunk)

\* the packets of out that carry the room snapshot of room
SnapshotsOf(packets, room) ==
    {i \in 1..Len(packets) :
        PayloadOf(packets[i]) = ROOM_COMMANDS.room_map \o RoomDataBytes(room)}

\* C12: when a step disconnects a client (close or idle reap) and its room
\* still has clients afterwards, then after the step the client is in no
\* room's client list and not in the clients table, the slot it occupied has
\* clientId none, type none and ready true, and every remaining client of the
\* room with a live socket was written a snapshot of the room as it is after
\* the slot was freed.
C12_DisconnectWithOthers ==
    [][\A id \in DOMAIN clients :
          /\ Disconnects(id)
          /\ clients[id].roomId \in DOMAIN rooms
          /\ id \in SeqToSet(rooms[clients[id].roomId].clients)
          /\ clients[id].roomId \in DOMAIN rooms'
          /\ Len(rooms'[clients[id].roomId].clients) > 0
          => /\ id \notin DOMAIN clients'
             /\ \A q \in DOMAIN rooms' : id \notin SeqToSet(rooms'[q].clients)
             /\ LET slot == rooms'[clients[id].roomId].playerSlots[clients[id].playerSlotIndex]
                IN  slot.clientId = Null /\ slot.type = "none" /\ slot.ready
             /\ \A c \in SeqToSet(rooms'[clients[id].roomId].clients) :
                    c \in DOMAIN clients' /\ ~sockets'[c].destroyed
                    => SnapshotsOf(out'[c], rooms'[clients[id].roomId]) # {}
      ]_vars

\* a reaper tick has disconnected one of two clients; the other one is still
\* connected and was written the snapshot and the map of the room
C12_Witness ==
    /\ lastOp.kind = "reaper"
    /\ Len(lastOp.chunk) = 1
    /\ \E c \in DOMAIN clients :
          /\ c \notin SeqToSet(lastOp.chunk)
          /\ clients[c].roomId \in RoomIds
          /\ ~sockets[c].destroyed
          /\ Len(out[c]) = 2
          /\ SnapshotsOf(out[c], rooms[clients[c].roomId]) = {1}

\* the connections whose client has been disconnected: accepted, and no
\* longer in the clients table
Disconnected(clientTable, socketTable) == (DOMAIN socketTable) \ (DOMAIN clientTable)

\* C13: once a client has been disconnected, no step writes anything to its
\* socket or advances its packet counter (no broadcast, no lobby ping, no
\* battle ping from a next-ping timer that fires afterwards), and no echo
\* timeout of that client is pending.
C13_NothingAfterDisconnect ==
    [][/\ \A id \in Disconnected(clients, sockets) :
             /\ out'[id] = <<>>
             /\ sockets'[id].packetCounter = sockets[id].packetCounter
       /\ \A id \in Disconnected(clients', sockets') :
             ~\E t \in timers' : t.kind = "pingTimeout" /\ t.id = id
      ]_vars

\* the next-ping timer of a client fires after the client was disconnected
\* while a second client is connected and has been written its greeting
C13_Witness ==
    /\ lastOp.kind = "nextPing"
    /\ lastOp.id \in Disconnected(clients, sockets)
    /\ \E c \in DOMAIN clients : clients[c].mapSent

\* the step takes the last client out of room r
LastClientLeaves(r) ==
    /\ Len(rooms[r].clients) > 0
    /\ r \in DOMAIN rooms' => Len(rooms'[r].clients) = 0

\* C14: when a step takes the last client out of a room, then afterwards room
\* 1 is not inBattle, its lobby ping counter is 0, its slots 1..7 have no
\* client, type none, ready true and team = color = index, and its slot 0 has
\* no client and is not ready; a room with id > 1 is no longer in the rooms
\* table.
C14_LastClientLeaves ==
    [][\A r \in RoomIds :
          LastClientLeaves(r)
          => IF r = 1
             THEN /\ 1 \in DOMAIN rooms'
                  /\ ~rooms'[1].inBattle
                  /\ roomPingCounters'[1] = 0
                  /\ \A i \in 1..7 :
                        /\ rooms'[1].playerSlots[i].clientId = Null
                        /\ rooms'[1].playerSlots[i].type = "none"
                        /\ rooms'[1].playerSlots[i].ready
                        /\ rooms'[1].playerSlots[i].team = i
                        /\ rooms'[1].playerSlots[i].color = i
                  /\ rooms'[1].playerSlots[0].clientId = Null
                  /\ ~rooms'[1].playerSlots[0].ready
             ELSE r \notin DOMAIN rooms'
      ]_vars

\* the last client of room 1 has left while room 2, created because room 1
\* was in battle, has a client: room 1 is back in the lobby state
C14_Witness ==
    /\ lastOp.kind \in {"close", "reaper"}
    /\ Len(rooms[1].clients) = 0
    /\ ~rooms[1].inBattle
    /\ 2 \in RoomIds

\* the payloads of the packets written to one socket, in order
Payloads(packets) == [k \in 1..Len(packets) |-> PayloadOf(packets[k])]

\* the clients of room r that can be written to
LiveMembers(r) ==
    {c \in SeqToSet(rooms[r].clients) : c \in DOMAIN clients /\ ~sockets[c].destroyed}

\* the step is a 'data' event from client id, in a room, whose chunk is one
\* frame that the dispatcher matches as command name
CommandStep(id, name) ==
    /\ nData' # nData
    /\ lastOp'.id = id
    /\ clients[id].roomId \in DOMAIN rooms
    /\ ~CollectFrames(lastOp'.chunk).hung
    /\ Len(CollectFrames(lastOp'.chunk).commandList) = 1
    /\ DispatchedNames(lastOp'.chunk) = {name}

\* the payload of the player_ready broadcast for slot i
PlayerReadyPayload(i) ==
    ROOM_COMMANDS.player_ready \o PLAYER_READY.ready_for_battle \o PLAYER_INDEX(i)

\* every slot of the room that a client occupies is ready
OccupiedReady(room) ==
    \A i \in SlotIndexes : room.playerSlots[i].clientId # Null => room.playerSlots[i].ready

\* C15 as stated: on every player_ready the sender's slot becomes ready and
\* player_ready 02 <slot> is broadcast to the room; whenever every occupied
\* slot is ready after that, slot 0 is marked ready and player_ready 02 00 is
\* broadcast to the room after it; otherwise slot 0 is unchanged and there is
\* no slot-0 broadcast.
C15_PlayerReady ==
    [][\A id \in DOMAIN clients :
          CommandStep(id, "player_ready")
          => LET r == clients[id].roomId
                 s == clients[id].playerSlotIndex
             IN  /\ rooms'[r].playerSlots[s].ready
                 /\ IF OccupiedReady(rooms'[r])
                    THEN /\ rooms'[r].playerSlots[0].ready
                         /\ \A c \in LiveMembers(r) :
                               Payloads(out'[c]) = <<PlayerReadyPayload(s), PlayerReadyPayload(0)>>
                    ELSE /\ rooms'[r].playerSlots[0].ready = rooms[r].playerSlots[0].ready
                         /\ \A c \in LiveMembers(r) :
                               Payloads(out'[c]) = <<PlayerReadyPayload(s)>>
      ]_vars

\* C15, amended: as above, but the slot-0 broadcast is sent only when slot 0
\* was not ready before; when every occupied slot is ready and slot 0 is ready
\* already, slot 0 stays ready and only the sender's broadcast is sent.
C15_PlayerReadyOnce ==
    [][\A id \in DOMAIN clients :
          CommandStep(id, "player_ready")
          => LET r == clients[id].roomId
                 s == clients[id].playerSlotIndex
             IN  /\ rooms'[r].playerSlots[s].ready
                 /\ IF OccupiedReady(rooms'[r]) /\ ~rooms[r].playerSlots[0].ready
                    THEN /\ rooms'[r].playerSlots[0].ready
                         /\ \A c \in LiveMembers(r) :
                               Payloads(out'[c]) = <<PlayerReadyPayload(s), PlayerReadyPayload(0)>>
                    ELSE /\ rooms'[r].playerSlots[0].ready = rooms[r].playerSlots[0].ready
                         /\ \A c \in LiveMembers(r) :
                               Payloads(out'[c]) = <<PlayerReadyPayload(s)>>
      ]_vars

\* the second of two clients of room 2 has sent player_ready: both were
\* written player_ready for the sender's slot and then for slot 0
C15_Witness ==
    /\ lastOp.kind = "data"
    /\ lastOp.chunk = Frame_player_ready
    /\ 2 \in RoomIds
    /\ Len(rooms[2].clients) = 2
    /\ rooms[2].playerSlots[0].ready
    /\ \A c \in SeqToSet(rooms[2].clients) :
          /\ c \in DOMAIN clients
          /\ Payloads(out[c]) = <<PlayerReadyPayload(clients[lastOp.id].playerSlotIndex),
                                  PlayerReadyPayload(0)>>

\* the commands of the lobby that are broadcast to the room
LobbyCommandNames ==
    {"player_name", "player_chat", "player_race", "player_color", "player_team",
     "player_ready"}

\* the packets among packets whose first payload byte is opcode
WithOpcode(packets, opcode) == {k \in 1..Len(packets) : packets[k][3] = opcode}

\* C16 as stated: a valid player_name, player_chat, player_race, player_color,
\* player_team or player_ready from a client puts exactly one frame of that
\* opcode on the socket of every client of the sender's room, the sender
\* included, and none on the socket of a client of another room; for
\* player_name the payload written is the opcode, s, 00, N, 00 as received.
C16_LobbyBroadcast ==
    [][\A id \in DOMAIN clients :
       \A name \in LobbyCommandNames \cap DispatchedNames(lastOp'.chunk) :
          CommandStep(id, name)
          => /\ \A c \in LiveMembers(clients[id].roomId) :
                   Cardinality(WithOpcode(out'[c], ROOM_COMMANDS[name][1])) = 1
             /\ \A c \in (DOMAIN sockets) \ SeqToSet(rooms[clients[id].roomId].clients) :
                   WithOpcode(out'[c], ROOM_COMMANDS[name][1]) = {}
             /\ name = "player_name"
                   => \A c \in LiveMembers(clients[id].roomId) :
                         Payloads(out'[c]) = <<PayloadOf(lastOp'.chunk)>>
      ]_vars

\* C16, amended: as above, but a player_ready that makes slot 0 ready puts two
\* player_ready frames on every socket of the room (the sender's slot, then
\* slot 0); in every other case it is one frame, and nothing at all is
\* written to a client of another room.
C16_LobbyBroadcastReadyTwice ==
    [][\A id \in DOMAIN clients :
       \A name \in LobbyCommandNames \cap DispatchedNames(lastOp'.chunk) :
          CommandStep(id, name)
          => /\ \A c \in LiveMembers(clients[id].roomId) :
                   /\ Cardinality(WithOpcode(out'[c], ROOM_COMMANDS[name][1])) =
                         IF /\ name = "player_ready"
                            /\ ~rooms[clients[id].roomId].playerSlots[0].ready
                            /\ rooms'[clients[id].roomId].playerSlots[0].ready
                         THEN 2 ELSE 1
                   /\ WithOpcode(out'[c], ROOM_COMMANDS[name][1]) = 1..Len(out'[c])
             /\ \A c \in (DOMAIN sockets) \ SeqToSet(rooms[clients[id].roomId].clients) :
                   out'[c] = <<>>
             /\ name = "player_name"
                   => \A c \in LiveMembers(clients[id].roomId) :
                         Payloads(out'[c]) = <<PayloadOf(lastOp'.chunk)>>
      ]_vars

\* a client of room 2 has sent player_name for its slot: both clients of room
\* 2 were written the frame, the client of room 1 was written nothing
C16_Witness ==
    /\ lastOp.kind = "data"
    /\ lastOp.id \in DOMAIN clients
    /\ lastOp.chunk = Frame_player_name(clients[lastOp.id].playerSlotIndex, <<70, 111, 111, 0>>)
    /\ clients[lastOp.id].roomId = 2
    /\ Len(rooms[2].clients) = 2
    /\ \A c \in SeqToSet(rooms[2].clients) :
          Payloads(out[c]) = <<<<103, clients[lastOp.id].playerSlotIndex, 0, 70, 111, 111, 0>>>>
    /\ 1 \in DOMAIN clients /\ ~sockets[1].destroyed /\ out[1] = <<>>

\* the commands relayed without interpretation
RelayCommandNames == RelayNames \cup {"unit_move"}

\* C17 as stated: a relayed command (unit_*, button_*, battle_chat,
\* game_speed) from client c puts one frame of that opcode on the socket of
\* every other client of c's room and none on the socket of c.
C17_RelayToOthers ==
    [][\A id \in DOMAIN clients :
       \A name \in RelayCommandNames \cap DispatchedNames(lastOp'.chunk) :
          CommandStep(id, name)
          => /\ \A c \in LiveMembers(clients[id].roomId) \ {id} :
                   Cardinality(WithOpcode(out'[c], ROOM_COMMANDS[name][1])) = 1
             /\ WithOpcode(out'[id], ROOM_COMMANDS[name][1]) = {}
      ]_vars

\* C17, amended: a relayed command from client c puts one frame of that
\* opcode, and nothing else, on the socket of every client of c's room, c
\* included, with the same payload for all of them, and nothing on the socket
\* of a client of another room.
C17_RelayToRoom ==
    [][\A id \in DOMAIN clients :
       \A name \in RelayCommandNames \cap DispatchedNames(lastOp'.chunk) :
          CommandStep(id, name)
          => /\ \A c \in LiveMembers(clients[id].roomId) :
                   /\ Len(out'[c]) = 1
                   /\ WithOpcode(out'[c], ROOM_COMMANDS[name][1]) = {1}
                   /\ Payloads(out'[c]) = Payloads(out'[id])
             /\ \A c \in (DOMAIN sockets) \ SeqToSet(rooms[clients[id].roomId].clients) :
                   out'[c] = <<>>
      ]_vars

\* a client of room 2 has sent battle_chat: it and the other client of room 2
\* were written the frame, the client of room 1 was written nothing
C17_Witness ==
    /\ lastOp.kind = "data"
    /\ lastOp.chunk = Frame_battle_chat
    /\ lastOp.id \in DOMAIN clients
    /\ clients[lastOp.id].roomId = 2
    /\ Len(rooms[2].clients) = 2
    /\ \A c \in SeqToSet(rooms[2].clients) :
          Payloads(out[c]) = <<<<14, 6, 255, 104, 105, 0>>>>
    /\ 1 \in DOMAIN clients /\ ~sockets[1].destroyed /\ out[1] = <<>>

\* C19: at a lobby ping tick, a client whose socket is open is written one
\* ping frame (payload 0x71 alone) if its room is not inBattle and its mapSent
\* flag is set, and is written nothing otherwise; so no ping reaches a client
\* before its map packet or while its room is in battle.
C19_LobbyPingTargets ==
    [][lastOp'.kind = "lobbyPing"
       => \A c \in DOMAIN clients :
             ~sockets[c].destroyed
             => Payloads(out'[c]) =
                   IF ~rooms[clients[c].roomId].inBattle /\ clients[c].mapSent
                   THEN <<ROOM_COMMANDS.ping>> ELSE <<>>
      ]_vars

\* a tick has pinged a greeted client of the lobby and has passed over a
\* client whose greeting is still to come
C19_Witness ==
    /\ lastOp.kind = "lobbyPing"
    /\ \E c \in DOMAIN clients, d \in DOMAIN clients :
          /\ Payloads(out[c]) = <<ROOM_COMMANDS.ping>>
          /\ ~sockets[d].destroyed
          /\ ~clients[d].mapSent
          /\ clients[d].roomId = clients[c].roomId
          /\ out[d] = <<>>

\* the payload of the map packet
MapPayload ==
    ROOM_COMMANDS.room_map \o RoomMap.type \o RoomMap.playerCount \o RoomMap.filename
        \o <<0>> \o RoomMap.displayName

\* the six packets of the greeting callback of timer t, written to a socket
\* that nothing was written to before
GreetingPackets(packets, t) ==
    /\ Len(packets) = 6
    /\ packets[1] = <<8, 0, 100, 15, 0, t.slotIndex, 0, 0>>
    /\ PayloadOf(packets[2]) = ROOM_COMMANDS.room_map \o RoomDataBytes(rooms[t.roomId])
    /\ PayloadOf(packets[3]) = MapPayload
    /\ \A k \in 4..6 : packets[k][3] = ROOM_COMMANDS.player_chat[1]

\* C20: while the 2-second timer of a connection is pending, a step of another
\* client or of a timer writes nothing to that connection; and when the timer
\* fires on a socket that is still open, the packets written to it are the
\* initial_packet greeting with counter nibble 0 and the assigned slot, the
\* room snapshot, the map packet and three player_chat lines.
C20_GreetingFirst ==
    [][\A t \in timers :
          t.kind = "greeting"
          => /\ lastOp'.id # t.id => out'[t.id] = <<>>
             /\ (/\ lastOp'.kind = "greeting"
                 /\ lastOp'.id = t.id
                 /\ ~sockets[t.id].destroyed
                 /\ t.roomId \in DOMAIN rooms)
                => GreetingPackets(out'[t.id], t)
      ]_vars

\* the connections that are still open
Connected == {id \in DOMAIN clients : ~sockets[id].destroyed}

\* While the event loop runs, no connection is open for more than
\* IDLE_TIMEOUT_MS + REAP_INTERVAL_MS after its last inbound byte.
IdleBoundWhileRunning ==
    proc = "running" =>
        \A id \in Connected : IdleFor(id) <= IDLE_TIMEOUT_MS + REAP_INTERVAL_MS

\* C18: with a reaper period of 10 s and IDLE_TIMEOUT_MS = 5000, a connection is
\* disconnected no later than IDLE_TIMEOUT_MS + 10 s after its last inbound
\* byte, or after its accept if it never sent any: no connection is open beyond
\* that time, whatever its stage and whatever the server sent to it.
C18_IdleDisconnected ==
    proc # "crashed" =>
        \A id \in Connected : IdleFor(id) <= IDLE_TIMEOUT_MS + REAP_INTERVAL_MS

\* buf.readUInt32LE(offset)
ReadUInt32LE(bytes, offset) ==
    bytes[offset + 1] + 256 * bytes[offset + 2] + 65536 * bytes[offset + 3]
        + 16777216 * bytes[offset + 4]

IsBattlePing1(packet) == PayloadOf(packet)[1] = ROOM_COMMANDS.battle_ping1[1]

\* the sequence numbers of the battle_ping1 packets among packets, in order
PingSequence(packets) ==
    LET pings == SelectSeq(packets, IsBattlePing1)
    IN  [k \in 1..Len(pings) |-> ReadUInt32LE(PayloadOf(pings[k]), 1)]

\* The sequence number of the last ping sent since begin_battle, -1 before
\* begin_battle: the counter is the number of the ping the client waits on, and
\* is one ahead once that ping was answered or has expired.
LastPing(state) ==
    IF ~state.alloc THEN -1
    ELSE IF state.waitingForEcho THEN state.counter ELSE state.counter - 1

\* the step handles a chunk of client id that holds a begin_battle
BeginBattleStep(id) ==
    /\ nData' # nData
    /\ lastOp'.id = id
    /\ "begin_battle" \in DispatchedNames(lastOp'.chunk)

\* C21: between a client's begin_battle and its next begin_battle or disconnect
\* the battle_ping1 frames sent to it carry the sequence numbers 0, 1, 2, ... in
\* order, each once and without gaps, after an echo as after a timeout: every
\* step writes the numbers that follow the last one sent, a begin_battle
\* starts again at 0, and the driver's counter moves only with the pings
\* written.  (A connection the peer has closed is written to no more.)
C21_PingSequence ==
    [][\A id \in Connected :
          LET seqs == PingSequence(out'[id])
              last == LastPing(clients[id].battlePingState)
              Continues(n) == \A k \in 1..n : seqs[k] = last + k
          IN  IF BeginBattleStep(id)
              THEN /\ id \in DOMAIN clients'
                   /\ \E j \in 0..Len(seqs) :
                         /\ Continues(j)
                         /\ \A k \in (j + 1)..Len(seqs) : seqs[k] = k - j - 1
                         /\ Len(seqs) - j = LastPing(clients'[id].battlePingState) + 1
                         /\ Len(seqs) - j >= 1
              ELSE /\ Continues(Len(seqs))
                   /\ id \in DOMAIN clients' =>
                         LastPing(clients'[id].battlePingState) = last + Len(seqs)
      ]_vars

\* ping 2 goes out on a timeout, after pings 0 and 1
C21_Witness ==
    /\ lastOp.kind = "pingTimeout"
    /\ lastOp.id \in DOMAIN clients
    /\ PingSequence(out[lastOp.id]) = <<2>>

\* the second 32-bit fields of the battle_ping1 packets among packets, in order
PingSecondField(packets) ==
    LET pings == SelectSeq(packets, IsBattlePing1)
    IN  [k \in 1..Len(pings) |-> ReadUInt32LE(PayloadOf(pings[k]), 5)]

\* every ping written to id in the step carries initialPacketCounter + its
\* sequence number, and only a begin_battle of id changes initialPacketCounter
PingSecondFieldFollows(id) ==
    /\ id \in DOMAIN clients' =>
          /\ \A k \in 1..Len(PingSequence(out'[id])) :
                PingSecondField(out'[id])[k]
                    = clients'[id].battlePingState.initialPacketCounter
                        + PingSequence(out'[id])[k]
          /\ clients[id].battlePingState.alloc /\ ~BeginBattleStep(id) =>
                clients'[id].battlePingState.initialPacketCounter
                    = clients[id].battlePingState.initialPacketCounter

\* C22 as stated: the second field of the ping with sequence number n is c + n,
\* c being the connection's outbound packet counter as a nibble in 0..15 at the
\* moment its begin_battle is received, before any frame that begin_battle
\* triggers is sent.
C22_PingSecondField ==
    [][\A id \in Connected :
          /\ PingSecondFieldFollows(id)
          /\ BeginBattleStep(id) =>
                clients'[id].battlePingState.initialPacketCounter
                    = CounterNibble(sockets[id].packetCounter)
      ]_vars

\* the packets of a game_speed broadcast among packets
IsGameSpeed(packet) == PayloadOf(packet)[1] = ROOM_COMMANDS.game_speed[1]

\* C22 as the code has it: the second field of the ping with sequence number n
\* is p + n, p being the stored value of the connection's packet counter,
\* 16 times the nibble, taken after the game_speed frame that the begin_battle
\* may have broadcast to the connection and before ping 0.
C22_PingSecondFieldStored ==
    [][\A id \in Connected :
          /\ PingSecondFieldFollows(id)
          /\ BeginBattleStep(id) =>
                /\ clients'[id].battlePingState.initialPacketCounter
                      = IF SelectSeq(out'[id], IsGameSpeed) # <<>>
                        THEN AdvanceCounter(sockets[id].packetCounter)
                        ELSE sockets[id].packetCounter
                /\ clients'[id].battlePingState.initialPacketCounter
                      \in {16 * n : n \in 0..15}
      ]_vars

\* a begin_battle that starts the battle: the sender gets game_speed and then
\* ping 0, whose second field is the stored counter after game_speed
C22_Witness ==
    /\ lastOp.kind = "data"
    /\ lastOp.id \in Connected
    /\ "begin_battle" \in DispatchedNames(lastOp.chunk)
    /\ SelectSeq(out[lastOp.id], IsGameSpeed) # <<>>
    /\ PingSequence(out[lastOp.id]) = <<0>>
    /\ PingSecondField(out[lastOp.id]) = <<144>>

\* C23: in every reachable state no client occupies slot 0 of any room, and
\* every room has at most 7 clients.
C23_SlotZeroAndRoomSize ==
    /\ \A r \in DOMAIN rooms :
          /\ rooms[r].playerSlots[0].clientId = Null
          /\ Cardinality(SeqToSet(rooms[r].clients)) <= 7
          /\ Len(rooms[r].clients) <= 7
    /\ \A c \in DOMAIN clients : clients[c].playerSlotIndex # 0

\* room 1 is full and the next client has been put into room 2
C23_Witness ==
    /\ 2 \in DOMAIN rooms
    /\ Len(rooms[1].clients) = 7
    /\ \A i \in 1..7 : rooms[1].playerSlots[i].clientId # Null
    /\ \E c \in DOMAIN clients : clients[c].roomId = 2 /\ clients[c].playerSlotIndex \in 1..7

\* C24: in every reachable state every slot's team index and color index are
\* within 0..7, whatever bytes clients send in player_team and player_color,
\* so that composing a room snapshot from a reachable room state succeeds.
C24_TeamColorInRange ==
    \A r \in DOMAIN rooms :
        /\ \A i \in 0..7 : /\ rooms[r].playerSlots[i].team \in 0..7
                           /\ rooms[r].playerSlots[i].color \in 0..7
        /\ ~RoomDataThrows(rooms[r])

\* client id is connected and waits for the echo of ping n
PingOutstanding(id, n) ==
    /\ id \in Connected
    /\ clients[id].battlePingState.alloc
    /\ clients[id].battlePingState.waitingForEcho
    /\ clients[id].battlePingState.counter = n

\* client id is connected and waits for the echo of a ping after ping n
PingOutstandingAfter(id, n) ==
    /\ id \in Connected
    /\ clients[id].battlePingState.alloc
    /\ clients[id].battlePingState.waitingForEcho
    /\ clients[id].battlePingState.counter > n

\* C25: the battle-ping stream never stalls: for a client that has sent
\* begin_battle and stays connected, after every ping another ping is
\* eventually sent, after the echo and the 33 ms interval or after the 5 s
\* timeout, when timers fire fairly.  (Ping n, for n below MaxPingSeq, is
\* followed by a later ping or by the end of the connection.)
C25_PingStreamLive ==
    \A id \in 1..StreamMembers : \A n \in 0..(MaxPingSeq - 1) :
        PingOutstanding(id, n) ~> (id \notin Connected \/ PingOutstandingAfter(id, n))

\* ping 1 is outstanding after ping 0 was answered by an echo
C25_Witness ==
    /\ lastOp.kind = "nextPing"
    /\ PingOutstanding(lastOp.id, 1)
    /\ PingSequence(out[lastOp.id]) = <<1>>

\* the echo timeouts armed for client id
EchoTimeouts(id) == {t \in timers : t.kind = "pingTimeout" /\ t.id = id}

\* C26: for every client at most one battle ping is outstanding and at most
\* one echo timeout is armed at any time; a timeout is pending exactly when
\* the client waits for an echo (and it is the one the ping state names), also
\* after repeated begin_battle commands and after echoes that arrive while a
\* 33 ms timer is pending.  A client that is gone has no timeout left.
C26_OneTimeoutWhileWaiting ==
    /\ \A id \in DOMAIN clients :
          LET state == clients[id].battlePingState
          IN  /\ Cardinality(EchoTimeouts(id)) <= 1
              /\ EchoTimeouts(id) # {} <=> state.alloc /\ state.waitingForEcho
              /\ \A t \in EchoTimeouts(id) : t.handle = state.timeoutId
    /\ \A id \in DOMAIN sockets : id \notin DOMAIN clients => EchoTimeouts(id) = {}

\* a client sent begin_battle again while the 33 ms timer set by its echo was
\* pending: it waits on ping 0 with one timeout armed
C26_Witness ==
    \E id \in DOMAIN clients :
        /\ clients[id].battlePingState.waitingForEcho
        /\ clients[id].battlePingState.counter = 0
        /\ Cardinality(EchoTimeouts(id)) = 1
        /\ \E t \in timers : t.kind = "nextPing" /\ t.id = id

\* a client's chunk made of the collected commands: each with its length header
RECURSIVE Reframe(_)
Reframe(commandList) ==
    IF commandList = <<>> THEN <<>>
    ELSE <<(Len(Head(commandList)) + 2) % 256, (Len(Head(commandList)) + 2) \div 256>>
             \o Head(commandList) \o Reframe(Tail(commandList))

IsKnownCommand(commandData) == MatchCommand(commandData) # 0

\* the step handles a chunk that holds a frame with an opcode outside the table
UnknownStep ==
    /\ nData' # nData
    /\ \E i \in 1..Len(CollectFrames(lastOp'.chunk).commandList) :
          ~IsKnownCommand(CollectFrames(lastOp'.chunk).commandList[i])

\* the chunk without its frames of unknown opcode
KnownOnly(chunk) == Reframe(SelectSeq(CollectFrames(chunk).commandList, IsKnownCommand))

\* C27: a frame whose opcode is not in the command table changes no room, slot
\* or client state and sends nothing, the connection stays open, and every
\* later complete frame of the same chunk is still dispatched: the chunk does
\* what it would do without that frame, and nothing if no other frame is in it.
C27_UnknownSkipped ==
    [][UnknownStep =>
          /\ Commit(OnData(St, lastOp'.id, KnownOnly(lastOp'.chunk)))
          /\ KnownOnly(lastOp'.chunk) = <<>> =>
                /\ UNCHANGED <<rooms, roomPingCounters, clients, sockets, timers, proc>>
                /\ \A sid \in DOMAIN out' : out'[sid] = <<>>
          /\ lastOp'.id \in DOMAIN clients'
          /\ ~sockets'[lastOp'.id].destroyed
      ]_vars

\* a chunk that starts with an unknown frame: the player_color and the
\* button_unit after it were broadcast
C27_Witness ==
    /\ lastOp.kind = "data"
    /\ lastOp.id \in Connected
    /\ lastOp.chunk = Frame_unknown \o Frame_player_color(3, clients[lastOp.id].playerSlotIndex)
                          \o Frame_button_unit
    /\ Payloads(out[lastOp.id])
          = <<<<107, 3, clients[lastOp.id].playerSlotIndex>>, <<10, 1>>>>

\* the frames of commandList handled as chunks of their own, one after the other
RECURSIVE OneByOne(_, _, _)
OneByOne(S, id, commandList) ==
    IF commandList = <<>> THEN S
    ELSE OneByOne(OnData(S, id, Reframe(<<Head(commandList)>>)), id, Tail(commandList))

\* the commands that put one frame of their own opcode on every socket of the room
SingleBroadcastNames ==
    {"player_chat", "player_race", "player_color", "player_team", "unit_move"} \cup RelayNames

\* the step handles a chunk of client id made of several complete frames, the
\* known ones among them commands that broadcast one frame each
SeveralFramesStep(id) ==
    /\ nData' # nData
    /\ lastOp'.id = id
    /\ clients[id].roomId \in DOMAIN rooms
    /\ ~CollectFrames(lastOp'.chunk).hung
    /\ Len(CollectFrames(lastOp'.chunk).commandList) >= 2
    /\ Reframe(CollectFrames(lastOp'.chunk).commandList) = lastOp'.chunk
    /\ DispatchedNames(lastOp'.chunk) \subseteq SingleBroadcastNames

\* the opcodes of the known commands of a chunk, in the order of the chunk
OpcodesOf(chunk) ==
    LET known == SelectSeq(CollectFrames(chunk).commandList, IsKnownCommand)
    IN  [k \in 1..Len(known) |-> known[k][1]]

\* C28: when one chunk holds several complete frames back-to-back, every one
\* of them is dispatched, in the order in which it appears in the chunk, and
\* the broadcasts they trigger reach each peer in that order: the step does
\* what the frames do when they arrive one by one, and every open socket of
\* the room is written one frame per command, in the order of the chunk.
C28_FramesInOrder ==
    [][\A id \in DOMAIN clients :
          SeveralFramesStep(id) =>
              /\ Commit(OneByOne(St, id, CollectFrames(lastOp'.chunk).commandList))
              /\ \A m \in LiveMembers(clients[id].roomId) :
                    [k \in 1..Len(out'[m]) |-> PayloadOf(out'[m][k])[1]]
                        = OpcodesOf(lastOp'.chunk)
      ]_vars

\* player_team, player_color and battle_chat in one chunk: the other client of
\* the room got the three broadcasts in that order
C28_Witness ==
    /\ lastOp.kind = "data"
    /\ OpcodesOf(lastOp.chunk) = <<109, 107, 14>>
    /\ \E m \in Connected :
          /\ m # lastOp.id
          /\ [k \in 1..Len(out[m]) |-> PayloadOf(out[m][k])[1]] = <<109, 107, 14>>

\* the chunk is one well-formed frame: its length header counts the whole
\* frame, an opcode follows the header and the last byte is the 0x00 terminator
WellFormedFrame(chunk) ==
    /\ Len(chunk) >= 4
    /\ chunk[1] + 256 * chunk[2] = Len(chunk)
    /\ chunk[Len(chunk)] = 0

\* the data bytes of a well-formed frame: what stands between the opcode and
\* the terminator
DataBytes(chunk) == SubSeq(chunk, 4, Len(chunk) - 1)

\* the data bytes a rebroadcast of command name has to carry for data bytes D
RelayedData(name, D) ==
    IF name = "unit_move" /\ D # <<>> /\ D[Len(D)] = 0 THEN SubSeq(D, 1, Len(D) - 1) ELSE D

\* C29: for a well-formed inbound relay frame with opcode o other than
\* unit_move and data bytes D, each frame rebroadcast for it has payload
\* exactly o followed by D, also when D itself ends in 0x00; for unit_move
\* one trailing 0x00 of D, if present, is removed and nothing else.
C29_RelayPayload ==
    [][\A id \in DOMAIN clients :
       \A name \in RelayCommandNames \cap DispatchedNames(lastOp'.chunk) :
          (CommandStep(id, name) /\ WellFormedFrame(lastOp'.chunk))
          => \A m \in LiveMembers(clients[id].roomId) :
                Payloads(out'[m])
                    = << <<lastOp'.chunk[3]>> \o RelayedData(name, DataBytes(lastOp'.chunk)) >>
      ]_vars

\* a unit_attack whose data bytes are 05 00 reached the other client of the
\* room as 18 05 00
C29_Witness ==
    /\ lastOp.kind = "data"
    /\ lastOp.chunk = Frame_unit_attack(<<5, 0>>)
    /\ \E m \in Connected :
          /\ m # lastOp.id
          /\ Payloads(out[m]) = << <<24, 5, 0>> >>

\* a unit_move whose data bytes are 00 00 reached the other client of the room
\* with one of them
UnitMoveStripped ==
    /\ lastOp.kind = "data"
    /\ lastOp.chunk = Frame_unit_move_with(<<0, 0>>)
    /\ \E m \in Connected :
          /\ m # lastOp.id
          /\ Payloads(out[m]) = << <<25, 0>> >>

\* the opcodes that the command table gives to a command
NamedOpcodes ==
    {ROOM_COMMANDS[ROOM_COMMAND_NAMES[k]][1] : k \in 1..Len(ROOM_COMMAND_NAMES)}

\* a frame of opcode o with two data bytes, sent by client id, is written
\* with its opcode to a socket of the sender's room
Rebroadcast(id, o) ==
    \E m \in LiveMembers(clients[id].roomId) :
        WithOpcode(OnData(St, id, ClientFrame(<<o, 1, 2>>)).out[m], o) # {}

\* C30: a unit_select or unit_select_data command received from a client is
\* rebroadcast to the sender's room like the other opaque relay commands: as
\* the table has no entry of either name, the two commands have opcodes
\* that the table gives to no other command, so for a connected client of a
\* room there are two such opcodes whose frames are rebroadcast.
C30_UnitSelectRelayed ==
    \A id \in Connected :
        (proc = "running" /\ clients[id].roomId \in DOMAIN rooms)
        => \E o1, o2 \in (0..255) \ NamedOpcodes :
              o1 # o2 /\ Rebroadcast(id, o1) /\ Rebroadcast(id, o2)

\* no frame of an opcode outside the table is ever written to a socket
NoUnnamedOpcodeWritten ==
    \A m \in DOMAIN out : \A k \in 1..Len(out[m]) : out[m][k][3] \in NamedOpcodes

\* a frame of opcode 0x16 was handled, with another client in the room, and
\* nothing was written
UnitSelectDropped ==
    /\ lastOp.kind = "data"
    /\ lastOp.chunk = Frame_opcode16
    /\ \E m \in Connected : m # lastOp.id
    /\ \A m \in DOMAIN out : out[m] = <<>>

(***************************************************************************)
(* Specification of admission and greeting: up to three clients connect to *)
(* the server that has just started, are greeted after their delay, one of *)
(* them may declare itself ready or begin a battle, and they close.        *)
(***************************************************************************)
\* connections accepted in one behaviour of SpecGreet
MaxGreetClients == 3
\* 'data' events handled in one behaviour of SpecGreet
MaxGreetData == 1

GreetChunks(s) == {Frame_begin_battle, Frame_player_ready}

AcceptGreet == AcceptWithin(MaxGreetClients)

DataGreet == DataFrom([s \in NoSlot..7 |-> GreetChunks(s)], MaxGreetData)

NextGreet ==
    \/ AcceptGreet
    \/ GreetingTimer
    \/ DataGreet
    \/ SocketClosed
    \/ CloseEvent

SpecGreet == Init /\ [][NextGreet]_vars

\* the step is the connection handler of a client whose 2000 ms timer is t
Admits(t) ==
    /\ lastOp'.kind = "accept"
    /\ t.kind = "greeting"
    /\ t.id = lastOp'.id

\* the step is the callback of the 2000 ms timer t on a socket that is open
Greets(t) ==
    /\ t.kind = "greeting"
    /\ lastOp'.kind = "greeting"
    /\ lastOp'.id = t.id
    /\ ~sockets[t.id].destroyed
    /\ proc' = "running"

\* the clients that were in the room of timer t when its client was admitted
\* and are still connected: ids are given out in the order of admission
AdmittedBefore(t) == {c \in LiveMembers(t.roomId) : c < t.id}

\* C31: when a new client's greeting is sent: if its room already had at
\* least one client at the moment of admission, a room-snapshot update (the
\* snapshot, then the map) is sent to each client that was in the room at
\* admission and is still connected, after the new client's map packet (the
\* step is the greeting without the update, followed by the update), and none
\* is sent to the new client; if the room was empty at admission, no update
\* is broadcast.
C31_UpdateAfterGreeting ==
    [][/\ \A t \in timers' \ timers :
             Admits(t)
             => (t.hadExistingClients
                    <=> (t.roomId \in DOMAIN rooms /\ rooms[t.roomId].clients # <<>>))
       /\ \A t \in timers :
             Greets(t)
             => /\ Len(out'[t.id]) = 6
                /\ SnapshotsOf(out'[t.id], rooms[t.roomId]) = {2}
                /\ PayloadOf(out'[t.id][3]) = MapPayload
                /\ t.hadExistingClients
                   => /\ \A draws \in RaceDraws :
                            Commit(BroadcastRoomUpdate(
                                GreetingCallback([St EXCEPT !.timers = @ \ {t}],
                                    [t EXCEPT !.hadExistingClients = FALSE], draws),
                                t.roomId, t.id))
                      /\ \A c \in AdmittedBefore(t) :
                            /\ Len(out'[c]) = 2
                            /\ SnapshotsOf(out'[c], rooms[t.roomId]) = {1}
                            /\ PayloadOf(out'[c][2]) = MapPayload
                /\ ~t.hadExistingClients
                   => \A c \in DOMAIN out' : c # t.id => out'[c] = <<>>
      ]_vars

\* client 3 was greeted in a room that held client 1 when it was admitted:
\* client 1 was written the snapshot and the map, client 3 its six packets
C31_Witness ==
    /\ lastOp.kind = "greeting"
    /\ lastOp.id = 3
    /\ 1 \in Connected
    /\ clients[1].roomId = clients[3].roomId
    /\ Len(out[1]) = 2
    /\ SnapshotsOf(out[1], rooms[clients[1].roomId]) = {1}
    /\ Len(out[3]) = 6

\* a client was greeted in a room that was empty when it was admitted and
\* holds another client now: nothing was written to the other client
NoUpdateForLaterClient ==
    /\ lastOp.kind = "greeting"
    /\ lastOp.id \in Connected
    /\ \E c \in Connected :
          /\ c # lastOp.id
          /\ clients[c].roomId = clients[lastOp.id].roomId
          /\ out[c] = <<>>

\* the step is the connection handler
AcceptStep == nextClientId' # nextClientId

\* C32: admission never fails: for every accepted connection the room
\* returned by room selection has a free slot, so addClientToRoom assigns a
\* slot in 1..7 and the no-free-slot branch that destroys the connection is
\* not taken: the room chosen in the state before has a free slot whatever
\* the random draw, and after the handler the client is in the clients table
\* and in its room, holds a slot in 1..7 that was free, and its socket is open.
C32_AdmissionNeverFails ==
    [][AcceptStep
       => /\ \A draws \in RaceDraws, rnd \in RandomUnit :
                LET G == GetAvailableRoom(St, draws)
                IN  GetFreeSlotInRoom(G.S.rooms[G.roomId], rnd) \in 1..7
          /\ nextClientId \in DOMAIN clients'
          /\ ~sockets'[nextClientId].destroyed
          /\ LET r == clients'[nextClientId].roomId
                 i == clients'[nextClientId].playerSlotIndex
             IN  /\ r \in DOMAIN rooms'
                 /\ i \in 1..7
                 /\ nextClientId \in SeqToSet(rooms'[r].clients)
                 /\ rooms'[r].playerSlots[i].clientId = nextClientId
                 /\ r \in DOMAIN rooms => /\ rooms[r].playerSlots[i].clientId = Null
                                          /\ rooms[r].playerSlots[i].type = "none"
      ]_vars

\* the eighth client connected while the seven slots of room 1 were taken and
\* was given a slot of the new room 2
C32_Witness ==
    /\ lastOp.kind = "accept"
    /\ Len(rooms[1].clients) = 7
    /\ lastOp.id \in DOMAIN clients
    /\ clients[lastOp.id].roomId = 2
    /\ clients[lastOp.id].playerSlotIndex \in 1..7
    /\ ~sockets[lastOp.id].destroyed

(***************************************************************************)
(* Specification of back-pressure: DrainMembers clients have been greeted  *)
(* in room 1 and send relayed commands; a peer may stop reading, so that   *)
(* writes to its socket are not flushed, and read again, which drains the  *)
(* socket.                                                                 *)
(***************************************************************************)
DrainMembers == 2
\* 'data' events handled in one behaviour of SpecDrain
MaxDrainData == 3

DrainChunks(s) == {Frame_battle_chat, Frame_button_unit \o Frame_battle_chat}

InitDrain ==
    /\ \E draws \in RaceDraws :
          \E S \in {Lobbyists(ServerStart(draws), 1, DrainMembers, draws)} :
              /\ rooms = S.rooms
              /\ roomPingCounters = S.roomPingCounters
              /\ clients = S.clients
              /\ sockets = S.sockets
              /\ timers = S.timers
              /\ out = S.out
              /\ proc = S.proc
    /\ nextClientId = DrainMembers + 1
    /\ lastOp = Op("greeting", DrainMembers, <<>>)
    /\ nData = 0
    /\ codec = CodecIdle
    /\ clock = ClockIdle

DataDrain == DataFrom([s \in NoSlot..7 |-> DrainChunks(s)], MaxDrainData)

\* the peer of an open socket stops reading: from now on socket.write
\* returns false
PeerStalls ==
    /\ proc = "running"
    /\ \E id \in DOMAIN sockets :
          /\ ~sockets[id].destroyed /\ ~sockets[id].congested
          /\ sockets' = [sockets EXCEPT ![id].congested = TRUE]
          /\ lastOp' = Op("stall", id, <<>>)
    /\ out' = [id \in DOMAIN sockets |-> <<>>]
    /\ UNCHANGED <<nextClientId, clients, rooms, roomPingCounters, timers, proc, nData,
                   codec, clock>>

\* the peer reads again and the buffer empties: the 'drain' event, whose
\* listener of safeWrite logs
DrainEvent ==
    /\ proc = "running"
    /\ \E id \in DOMAIN sockets :
          /\ ~sockets[id].destroyed /\ sockets[id].writableNeedDrain
          /\ sockets' = [sockets EXCEPT ![id].congested = FALSE,
                                        ![id].writableNeedDrain = FALSE]
          /\ lastOp' = Op("drain", id, <<>>)
    /\ out' = [id \in DOMAIN sockets |-> <<>>]
    /\ UNCHANGED <<nextClientId, clients, rooms, roomPingCounters, timers, proc, nData,
                   codec, clock>>

NextDrain ==
    \/ DataDrain
    \/ PeerStalls
    \/ DrainEvent
    \/ SocketClosed
    \/ CloseEvent

SpecDrain == InitDrain /\ [][NextDrain]_vars

\* C33: after a write on a connection reports that the socket buffer is not
\* drained, no further frame is written to that same connection until its
\* drain event has occurred (writes to other connections proceed): write is
\* never called on a socket whose last write returned false and that has not
\* drained since, neither in a later handler nor later in the same handler.
C33_WaitsForDrain ==
    \A id \in DOMAIN sockets : ~sockets[id].wroteUndrained

\* a handler wrote to a socket that was waiting for its drain event, and to
\* the other socket of the room as well
WriteWhileUndrained ==
    /\ lastOp.kind = "data"
    /\ \E id \in Connected :
          /\ sockets[id].wroteUndrained
          /\ out[id] # <<>>
          /\ \E c \in Connected : c # id /\ ~sockets[c].writableNeedDrain /\ out[c] # <<>>

\* C34: in every reachable state, whenever a room is non-empty and every
\* client currently in it has battleInitiated set, the room's inBattle flag
\* is true, also after a client that had not initiated leaves.
C34_AllInitiatedInBattle ==
    \A r \in DOMAIN rooms : AllInitiated(rooms, clients, r) => rooms[r].inBattle

\* C34, amended: the flag is computed only when begin_battle is dispatched.
\* A non-empty room whose clients all have battleInitiated set and that is
\* not inBattle arises only in a step in which a client that had not
\* initiated is disconnected from it, and in no other way: never by a
\* begin_battle or an admission.
C34_AllInitiatedUnlessLeft ==
    [][\A r \in DOMAIN rooms' :
          (AllInitiated(rooms', clients', r) /\ ~rooms'[r].inBattle)
          => /\ r \in DOMAIN rooms
             /\ ~rooms[r].inBattle
             /\ \/ AllInitiated(rooms, clients, r)
                \/ \E c \in SeqToSet(rooms[r].clients) \ SeqToSet(rooms'[r].clients) :
                      ~clients[c].battleInitiated
      ]_vars

\* a client that had not sent begin_battle has left a room whose remaining
\* clients all have: the room is not in battle and open to newcomers
C34_Witness ==
    /\ lastOp.kind = "close"
    /\ \E r \in DOMAIN rooms :
          /\ AllInitiated(rooms, clients, r)
          /\ ~rooms[r].inBattle
          /\ RoomAvailable(rooms[r])

\* slot 0 of the room is ready and the slot of a client of the room is not
AiReadyAhead(rs, cs, r) ==
    /\ rs[r].playerSlots[0].ready
    /\ \E c \in SeqToSet(rs[r].clients) :
          /\ c \in DOMAIN cs
          /\ cs[c].playerSlotIndex \in 1..7
          /\ ~rs[r].playerSlots[cs[c].playerSlotIndex].ready

\* C35: in every reachable state, if slot 0 (AI) of a room is ready then the
\* slot of every client currently in that room is ready, also after a client
\* joins a room whose AI slot was already marked ready.
C35_AiReadyImpliesAllReady ==
    \A r \in DOMAIN rooms : ~AiReadyAhead(rooms, clients, r)

\* C35, amended: slot 0 is marked ready by a player_ready that leaves every
\* client's slot ready and is not reset when a client joins.  A room whose
\* slot 0 is ready while the slot of one of its clients is not arises only in
\* a step that admits a client to a room whose slot 0 was ready, and in no
\* other way.
C35_AiReadyAheadOnlyByJoin ==
    [][\A r \in DOMAIN rooms' :
          AiReadyAhead(rooms', clients', r)
          => /\ r \in DOMAIN rooms
             /\ rooms[r].playerSlots[0].ready
             /\ \/ AiReadyAhead(rooms, clients, r)
                \/ /\ AcceptStep
                   /\ nextClientId \in SeqToSet(rooms'[r].clients)
                   /\ ~rooms'[r].playerSlots[clients'[nextClientId].playerSlotIndex].ready
      ]_vars

\* a client has been admitted to a room whose slot 0 was ready: its own slot
\* is not ready, slot 0 still is
C35_Witness ==
    /\ lastOp.kind = "accept"
    /\ lastOp.id \in DOMAIN clients
    /\ clients[lastOp.id].roomId \in DOMAIN rooms
    /\ AiReadyAhead(rooms, clients, clients[lastOp.id].roomId)
    /\ Len(rooms[clients[lastOp.id].roomId].clients) = 2

\* the client ids stored in the slots of a room
SlotHolders(room) == {room.playerSlots[i].clientId : i \in SlotIndexes} \ {Null}

\* C36: in every reachable state, for every room: the room's client set
\* equals the set of client ids stored in its slots, each such client's
\* roomId and slot index point back to that room and slot, and a slot in 1..7
\* has type gamer exactly when it holds a client and type none otherwise.
C36_RoomsSlotsClientsAgree ==
    \A r \in DOMAIN rooms :
        /\ SeqToSet(rooms[r].clients) = SlotHolders(rooms[r])
        /\ Cardinality(SeqToSet(rooms[r].clients)) = Len(rooms[r].clients)
        /\ \A c \in SeqToSet(rooms[r].clients) :
              /\ c \in DOMAIN clients
              /\ clients[c].roomId = r
              /\ clients[c].playerSlotIndex \in SlotIndexes
              /\ rooms[r].playerSlots[clients[c].playerSlotIndex].clientId = c
        /\ \A i \in 1..7 :
              IF rooms[r].playerSlots[i].clientId # Null
              THEN rooms[r].playerSlots[i].type = "gamer"
              ELSE rooms[r].playerSlots[i].type = "none"

\* the first of two clients of a room has left and a third client has been
\* given a slot: the room holds two clients, each in a slot of type gamer
C36_Witness ==
    /\ lastOp.kind = "accept"
    /\ lastOp.id = 3
    /\ 1 \notin DOMAIN clients
    /\ \E r \in DOMAIN rooms :
          /\ SeqToSet(rooms[r].clients) = {2, 3}
          /\ SlotHolders(rooms[r]) = {2, 3}
          /\ Cardinality({i \in 1..7 : rooms[r].playerSlots[i].type = "gamer"}) = 2

(***************************************************************************)
(* Specification of the slot commands: SlotMembers clients have been       *)
(* greeted in room 1, in slots 1 and 2, and send player_name, player_race, *)
(* player_color and player_team for their own slot, for the other client's  *)
(* slot, for the AI slot 0 and for an empty slot.                          *)
(***************************************************************************)
SlotMembers == 2
\* 'data' events handled in one behaviour of SpecSlots
MaxSlotData == 2

\* the slots that the commands name
SlotOrdinals == {0, 1, 2, 5}

Str_Foo == <<70, 111, 111>>

SlotChunks(s) ==
    UNION {{Frame_player_name(o, Str_Foo \o <<0>>), Frame_player_race(1, o),
            Frame_player_color(3, o), Frame_player_team(6, o)} : o \in SlotOrdinals}

InitSlots ==
    /\ \E draws \in RaceDraws :
          \E S \in {Lobbyists(ServerStart(draws), 1, SlotMembers, draws)} :
              /\ rooms = S.rooms
              /\ roomPingCounters = S.roomPingCounters
              /\ clients = S.clients
              /\ sockets = S.sockets
              /\ timers = S.timers
              /\ out = S.out
              /\ proc = S.proc
    /\ nextClientId = SlotMembers + 1
    /\ lastOp = Op("greeting", SlotMembers, <<>>)
    /\ nData = 0
    /\ codec = CodecIdle
    /\ clock = ClockIdle

DataSlots == DataFrom([s \in NoSlot..7 |-> SlotChunks(s)], MaxSlotData)

NextSlots ==
    \/ DataSlots
    \/ SocketClosed
    \/ CloseEvent

SpecSlots == InitSlots /\ [][NextSlots]_vars

SlotFieldNames == {"player_name", "player_race", "player_color", "player_team"}

\* the ordinal byte of a slot command: first data byte of player_name, second
\* of the others
OrdinalOf(chunk) == IF chunk[3] = ROOM_COMMANDS.player_name[1] THEN chunk[4] ELSE chunk[5]

\* the fields that the four commands set
FieldsOf(slot) == <<slot.name, slot.race, slot.color, slot.team>>

\* the slot with the field of command name set as the chunk says
SlotSet(slot, name, chunk) ==
    CASE name = "player_name"  -> [slot EXCEPT !.name = SubSeq(chunk, 6, Len(chunk) - 2)]
      [] name = "player_race"  -> [slot EXCEPT !.race = IF chunk[4] = 1 THEN "humans"
                                                        ELSE "aliens"]
      [] name = "player_color" -> [slot EXCEPT !.color = chunk[4]]
      [] name = "player_team"  -> [slot EXCEPT !.team = chunk[4]]

\* C37: a player_name, player_race, player_color or player_team command
\* received from client c changes only the slot that c occupies: it never
\* alters the name, race, color or team of a slot held by another client, of
\* an empty slot, or of the AI slot 0.
C37_OnlyOwnSlot ==
    [][\A id \in DOMAIN clients :
       \A name \in SlotFieldNames \cap DispatchedNames(lastOp'.chunk) :
          CommandStep(id, name)
          => \A r \in DOMAIN rooms : \A i \in SlotIndexes :
                (r # clients[id].roomId \/ i # clients[id].playerSlotIndex)
                => FieldsOf(rooms'[r].playerSlots[i]) = FieldsOf(rooms[r].playerSlots[i])
      ]_vars

\* C37, amended: a player_name, player_race, player_color or player_team
\* command received from client c changes only the slot of c's room that its
\* ordinal byte names, whoever holds that slot: the field of that slot is
\* set, also when it is the slot of another client, an empty slot or the AI
\* slot 0, and no other slot, field or room changes.
C37_OnlyNamedSlot ==
    [][\A id \in DOMAIN clients :
       \A name \in SlotFieldNames \cap DispatchedNames(lastOp'.chunk) :
          (CommandStep(id, name) /\ OrdinalOf(lastOp'.chunk) \in SlotIndexes)
          => /\ DOMAIN rooms' = DOMAIN rooms
             /\ \A r \in DOMAIN rooms : \A i \in SlotIndexes :
                   rooms'[r].playerSlots[i] =
                       IF r = clients[id].roomId /\ i = OrdinalOf(lastOp'.chunk)
                       THEN SlotSet(rooms[r].playerSlots[i], name, lastOp'.chunk)
                       ELSE rooms[r].playerSlots[i]
      ]_vars

\* the client of slot 2 has sent player_name for slot 1, which another client
\* holds, and the name of slot 1 is the one it sent
C37_Witness ==
    /\ lastOp.kind = "data"
    /\ lastOp.chunk = Frame_player_name(1, Str_Foo \o <<0>>)
    /\ lastOp.id \in DOMAIN clients
    /\ clients[lastOp.id].playerSlotIndex = 2
    /\ rooms[1].playerSlots[1].clientId \notin {Null, lastOp.id}
    /\ rooms[1].playerSlots[1].name = Str_Foo

\* a client has set the team of the AI slot 0
AiSlotChanged ==
    /\ lastOp.kind = "data"
    /\ lastOp.chunk = Frame_player_team(6, 0)
    /\ rooms[1].playerSlots[0].team = 6

\* the lobby ping frames among packets
LobbyPingsIn(packets) == WithOpcode(packets, ROOM_COMMANDS.ping[1])

\* the connected clients that have an allocated battle-ping state
Battling == {c \in Connected : clients[c].battlePingState.alloc}

\* C38: a client that has an allocated battle-ping state (it has sent
\* begin_battle) is never sent a lobby ping (0x71), including while other
\* clients of its room have not yet initiated battle.
C38_NoLobbyPingAfterBeginBattle ==
    [][\A c \in Battling : LobbyPingsIn(out'[c]) = {}]_vars

\* C38, amended: the lobby ping looks at the room's inBattle flag and at the
\* client's mapSent flag, not at the battle-ping state.  A client that has
\* sent begin_battle is sent no lobby ping once its room is inBattle; while
\* other clients of its room have not initiated, the room is not inBattle and
\* every tick still sends it one lobby ping if its mapSent flag is set.  No
\* other step sends it a lobby ping.
C38_LobbyPingUntilInBattle ==
    [][\A c \in Battling :
          Cardinality(LobbyPingsIn(out'[c])) =
              IF /\ lastOp'.kind = "lobbyPing"
                 /\ ~rooms[clients[c].roomId].inBattle
                 /\ clients[c].mapSent
              THEN 1 ELSE 0
      ]_vars

\* a tick has sent a lobby ping to a client that has sent begin_battle and
\* whose room, with another client that has not, is not in battle
C38_Witness ==
    /\ lastOp.kind = "lobbyPing"
    /\ \E c \in Battling :
          /\ Payloads(out[c]) = <<ROOM_COMMANDS.ping>>
          /\ clients[c].battleInitiated
          /\ ~rooms[clients[c].roomId].inBattle
          /\ Len(rooms[clients[c].roomId].clients) = 2

\* a tick has passed over a client whose room is in battle and has pinged
\* the client of another room
InBattleNotPinged ==
    /\ lastOp.kind = "lobbyPing"
    /\ \E c \in Battling, d \in Connected :
          /\ rooms[clients[c].roomId].inBattle
          /\ out[c] = <<>>
          /\ Payloads(out[d]) = <<ROOM_COMMANDS.ping>>

\* the game_speed frames of a battle start among packets
BattleStartFrames(packets) ==
    {k \in 1..Len(packets) :
        PayloadOf(packets[k]) = ROOM_COMMANDS.game_speed \o <<33, 0, 0, 0>>}

\* the step handles a chunk of client id, in room r, that holds one begin_battle
OneBeginBattle(id, r) ==
    /\ BeginBattleStep(id)
    /\ id \in DOMAIN clients
    /\ clients[id].roomId = r
    /\ Cardinality({k \in 1..Len(CollectFrames(lastOp'.chunk).commandList) :
                       IsPrefix(ROOM_COMMANDS.begin_battle,
                                CollectFrames(lastOp'.chunk).commandList[k])}) = 1

\* C39: for each room, between two resets the battle-start game_speed
\* broadcast (data 21 00 00 00) is sent at most once: a begin_battle received
\* while the room is already inBattle neither re-runs the battle start nor
\* rebroadcasts game_speed.
C39_GameSpeedOnce ==
    [][\A r \in DOMAIN rooms : \A id \in DOMAIN clients :
          (OneBeginBattle(id, r) /\ rooms[r].inBattle)
          => \A c \in DOMAIN out' : BattleStartFrames(out'[c]) = {}
      ]_vars

\* C39, amended: the begin_battle branch does not look at inBattle.  Every
\* begin_battle dispatched when all clients of the sender's room have
\* battleInitiated set, also one received while the room is already
\* inBattle, sets inBattle and broadcasts game_speed 21 00 00 00 once to every
\* open socket of the room; a begin_battle after which a client of the room
\* has not initiated broadcasts none.
C39_GameSpeedAtEveryStart ==
    [][\A r \in DOMAIN rooms : \A id \in DOMAIN clients :
          OneBeginBattle(id, r)
          => /\ \A c \in LiveMembers(r) :
                   Cardinality(BattleStartFrames(out'[c])) =
                       IF AllInitiated(rooms', clients', r) THEN 1 ELSE 0
             /\ AllInitiated(rooms', clients', r) => rooms'[r].inBattle
      ]_vars

\* a client that is alone in a room that has been in battle since it sent
\* its first begin_battle has sent begin_battle again and was written
\* game_speed again
C39_Witness ==
    /\ nData > 0
    /\ lastOp.kind = "data"
    /\ lastOp.chunk = Frame_begin_battle
    /\ lastOp.id \in 1..RoomVeterans
    /\ lastOp.id \in Connected
    /\ rooms[clients[lastOp.id].roomId].inBattle
    /\ Cardinality(BattleStartFrames(out[lastOp.id])) = 1

(***************************************************************************)
(* C40: disconnect of a client that is no longer in the clients map.       *)
(***************************************************************************)
\* a 'close' event or a greeting timer of a client that an earlier
\* disconnect has removed from the clients map
SecondDisconnect ==
    /\ lastOp'.kind \in {"close", "greeting"}
    /\ lastOp'.id \notin DOMAIN clients
    /\ sockets' # sockets \/ timers' # timers

\* all that such a step changes: the socket has emitted 'close', the timer
\* has fired
OnlyEventConsumed(id) ==
    /\ DOMAIN sockets' = DOMAIN sockets
    /\ \A sid \in DOMAIN sockets :
          sockets'[sid] = IF sid = id /\ lastOp'.kind = "close"
                          THEN [sockets[sid] EXCEPT !.closeEmitted = TRUE]
                          ELSE sockets[sid]
    /\ timers' = IF lastOp'.kind = "greeting"
                 THEN {t \in timers : ~(t.kind = "greeting" /\ t.id = id)}
                 ELSE timers

\* C40: a second disconnect of a client id, by the 'close' event of its
\* socket or by its greeting timer, after an earlier disconnect has removed
\* the client, changes no room, no slot, no client and no ping counter, writes
\* no packet to any socket and leaves the process running, whoever holds the
\* slot the client had.
C40_SecondDisconnectNoOp ==
    [][SecondDisconnect =>
          /\ rooms' = rooms
          /\ clients' = clients
          /\ roomPingCounters' = roomPingCounters
          /\ proc' = proc
          /\ \A sid \in DOMAIN out' : out'[sid] = <<>>
          /\ OnlyEventConsumed(lastOp'.id)]_vars

\* the 'close' event of a reaped client whose greeting timer is still to fire,
\* after the slot it had has been given to a later client
C40_Witness ==
    /\ lastOp.kind = "close"
    /\ lastOp.id \notin DOMAIN clients
    /\ \E t \in timers, c \in Connected :
          /\ t.kind = "greeting" /\ t.id = lastOp.id
          /\ c > t.id
          /\ clients[c].roomId = t.roomId
          /\ clients[c].playerSlotIndex = t.slotIndex
          /\ rooms[t.roomId].playerSlots[t.slotIndex].clientId = c

====
